---------------------------- MODULE Spec2Model ----------------------------
(***************************************************************************)
(* Model of the skill extraction and ranking engine of the-scrapper        *)
(* (src/skill_analyzer.py): the lexicon PREDEFINED_SKILLS and its compiled *)
(* form, the matcher extract_skills_regex, the aggregator aggregate_skills,*)
(* the ranker rank_skills and the pipeline analyze_skills.                 *)
(*                                                                         *)
(* Texts are sequences of one-character strings.  A regular expression is  *)
(* a sequence of nodes; matching computes, node by node, the set of        *)
(* positions at which a match of the prefix can end, which decides         *)
(* pattern.search() exactly as a backtracking matcher does for the         *)
(* constructs the lexicon uses.                                            *)
(***************************************************************************)
EXTENDS Integers, Sequences, FiniteSets, TLC

VARIABLES
    COMPILED_PATTERNS,  \* module global: skill -> compiled rules, in dict order
    hashseed,           \* per-process str hash seed: fixes set iteration order
    pc,                 \* position of the caller: "start", then how the call ended
    raised,             \* exception that left the last call, "none" if it returned
    calls,              \* number of extract_skills_regex calls made directly
    text,               \* extract_skills_regex: argument of the last direct call
    found_skills,       \* extract_skills_regex: set returned by the last direct call
    returned,           \* history: text -> the outcomes its calls have had so far
    all_skills,         \* list of per-job skill sets
    skill_counts,       \* Counter: (skill, count) items in insertion order
    total_jobs,         \* denominator handed to rank_skills
    top_n,              \* truncation handed to rank_skills
    ranked,             \* returned list of (skill, count, percentage)
    jobs,               \* job dicts handed to analyze_skills (mutated in place)
    jobs_at_call,       \* history: the job dicts as they were when the call began
    raw,                \* normalize: argument of the last call
    canonical,          \* normalize: outcome of the last call
    normalized,         \* history: (argument, outcome) of the calls of normalize
    job_descriptions,   \* discover_new_skills: the descriptions handed in
    known_skills,       \* discover_new_skills: the skills handed in as known
    known_lower,        \* discover_new_skills: lowercased names seen so far
    all_new_skills,     \* discover_new_skills: set of skills kept so far
    chunk_start,        \* discover_new_skills: i, index of the next chunk
    new_skills,         \* list returned by discover_new_skills
    num_keywords,       \* generate_search_keywords: its argument
    content,            \* the last reply of the LLM
    keywords,           \* main: the search keywords in use
    main_pc,            \* main: the step it is at
    exit_status,        \* exit status of the process, -1 while it runs
    driver,             \* IndeedScraper.driver: 0 for None, else a browser
    browsers,           \* the browser drivers created so far, each with the
                        \* method that created it and its quit() calls
    search_pc,          \* search_jobs: the step it is at
    page,               \* search_jobs: the passes of its loop begun
    num_pages,          \* search_jobs: its argument
    cards,              \* search_jobs: len(jobs), the cards collected
    pending,            \* search_jobs: the exception the finally clause
                        \* passes on, "none" if there is none
    searched            \* calls of search_jobs that have ended

\* the variables of the engine of src/skill_analyzer.py
engineVars == <<COMPILED_PATTERNS, hashseed, pc, raised, calls, text, found_skills,
                returned, all_skills, skill_counts, total_jobs, top_n, ranked,
                jobs, jobs_at_call>>

normalizerVars == <<raw, canonical, normalized>>

\* the variables of src/groq_helper.py
groqVars == <<job_descriptions, known_skills, known_lower, all_new_skills,
              chunk_start, new_skills, num_keywords, content, keywords>>

\* the variables of src/main.py
mainVars == <<main_pc, exit_status>>

\* the variables of src/indeed_scraper.py
scraperVars == <<driver, browsers, search_pc, page, num_pages, cards, pending,
                 searched>>

vars == <<engineVars, normalizerVars, groqVars, mainVars, scraperVars>>

-----------------------------------------------------------------------------
(* Python values *)

Str(s) == [type |-> "str", s |-> s]             \* a str, as its characters
None == [type |-> "NoneType", s |-> <<>>]

\* truth value of a str or None: `not v` holds for "" and for None
Truthy(v) == v.type = "str" /\ v.s # <<>>

\* outcome of an expression: a value, or the exception it raises
Ok(v) == [raised |-> "none", value |-> v]
Raise(e) == [raised |-> e, value |-> <<>>]

-----------------------------------------------------------------------------
(* Characters *)

UpperCase == <<"A", "B", "C", "D", "E", "F", "G", "H", "I", "J", "K", "L", "M",
               "N", "O", "P", "Q", "R", "S", "T", "U", "V", "W", "X", "Y", "Z">>
LowerCase == <<"a", "b", "c", "d", "e", "f", "g", "h", "i", "j", "k", "l", "m",
               "n", "o", "p", "q", "r", "s", "t", "u", "v", "w", "x", "y", "z">>
Digits == {"0", "1", "2", "3", "4", "5", "6", "7", "8", "9"}
Whitespace == {" ", "\t", "\n", "\r"}

Range(s) == {s[i] : i \in DOMAIN s}

UpperChars == Range(UpperCase)

\* \w of a str pattern, on the ASCII characters the texts use
WordChars == UpperChars \cup Range(LowerCase) \cup Digits \cup {"_"}

\* str.lower() on one character
LowerChar(c) ==
    IF c \in UpperChars
    THEN LowerCase[CHOOSE i \in DOMAIN UpperCase : UpperCase[i] = c]
    ELSE c

\* str.lower()
ToLower(s) == [i \in DOMAIN s |-> LowerChar(s[i])]

\* str.strip(): the characters of s without the whitespace before the first
\* and after the last character that is none
RECURSIVE LStrip(_), RStrip(_)
LStrip(s) == IF s # <<>> /\ Head(s) \in Whitespace THEN LStrip(Tail(s)) ELSE s

RStrip(s) ==
    IF s # <<>> /\ s[Len(s)] \in Whitespace THEN RStrip(SubSeq(s, 1, Len(s) - 1)) ELSE s

Strip(s) == RStrip(LStrip(s))

-----------------------------------------------------------------------------
(* Regular expressions: the constructs the lexicon uses *)

Node(t, c, lo, hi, alts) == [t |-> t, c |-> c, lo |-> lo, hi |-> hi, alts |-> alts]

Lit(c) == Node("lit", c, 0, 0, <<>>)            \* one literal character
Bnd == Node("bnd", "", 0, 0, <<>>)              \* \b
Ws == Node("ws", "", 0, 0, <<>>)                \* \s
Digit == Node("digit", "", 0, 0, <<>>)          \* \d
AnyCh == Node("any", "", 0, 0, <<>>)            \* .
Alt(branches) == Node("alt", "", 0, 0, branches)        \* (?:a|b)
NotAhead(branches) == Node("nla", "", 0, 0, branches)   \* (?!a|b)
Rep(lo, hi, body) == Node("rep", "", lo, hi, <<body>>)  \* x* x+ x? (hi = -1: no limit)

\* a run of literal characters
W(s) == [i \in DOMAIN s |-> Lit(s[i])]

\* variant: the rules written as plain strings instead of raw ones, in which
\* \b is a backspace character and never a word boundary
WordAt_never(s, i) == FALSE

\* is the i-th character of s (1-based) a word character
WordAt(s, i) == i >= 1 /\ i <= Len(s) /\ s[i] \in WordChars

RECURSIVE MatchNode(_, _, _), MatchSeq(_, _, _, _), MatchRep(_, _, _, _)

\* positions at which node n can end when it starts after p characters of s;
\* literals compare case-insensitively (re.IGNORECASE)
MatchNode(n, s, p) ==
    CASE n.t = "lit" ->
            IF p < Len(s) /\ LowerChar(s[p + 1]) = LowerChar(n.c) THEN {p + 1} ELSE {}
      [] n.t = "any" ->
            IF p < Len(s) /\ s[p + 1] # "\n" THEN {p + 1} ELSE {}
      [] n.t = "ws" ->
            IF p < Len(s) /\ s[p + 1] \in Whitespace THEN {p + 1} ELSE {}
      [] n.t = "digit" ->
            IF p < Len(s) /\ s[p + 1] \in Digits THEN {p + 1} ELSE {}
      [] n.t = "bnd" ->
            IF WordAt(s, p) # WordAt(s, p + 1) THEN {p} ELSE {}
      [] n.t = "alt" ->
            UNION {MatchSeq(n.alts[k], 1, s, {p}) : k \in DOMAIN n.alts}
      [] n.t = "nla" ->
            IF \E k \in DOMAIN n.alts : MatchSeq(n.alts[k], 1, s, {p}) # {}
            THEN {} ELSE {p}
      [] n.t = "rep" -> MatchRep(n, s, {p}, 0)

\* positions at which nodes i.. of seq can end when they start at a position of P
MatchSeq(seq, i, s, P) ==
    IF i > Len(seq) \/ P = {} THEN P
    ELSE MatchSeq(seq, i + 1, s, UNION {MatchNode(seq[i], s, p) : p \in P})

\* P: the positions reached after exactly k repetitions of the body
MatchRep(n, s, P, k) ==
    IF P = {} THEN {}
    ELSE (IF k >= n.lo THEN P ELSE {})
         \cup (IF n.hi = -1 \/ k < n.hi
               THEN MatchRep(n, s, MatchSeq(n.alts[1], 1, s, P), k + 1)
               ELSE {})

\* pattern.search(s): the pattern matches starting at some position of s
Search(pattern, s) == \E start \in 0..Len(s) : MatchSeq(pattern, 1, s, {start}) # {}

-----------------------------------------------------------------------------
(* The lexicon, src/skill_analyzer.py:15-149, in dict order *)

PREDEFINED_SKILLS == <<
    \* r"\bpython\b"
    [skill |-> "Python", patterns |-> <<<<Bnd>> \o W(<<"p", "y", "t", "h", "o", "n">>) \o <<Bnd>>>>],
    \* r"\bjava\b(?!\s*script)"
    [skill |-> "Java", patterns |-> <<<<Bnd>> \o W(<<"j", "a", "v", "a">>) \o <<Bnd>> \o <<NotAhead(<<<<Rep(0, -1, <<Ws>>)>> \o W(<<"s", "c", "r", "i", "p", "t">>)>>)>>>>],
    \* r"\bjavascript\b", r"\bjs\b"
    [skill |-> "JavaScript", patterns |-> <<<<Bnd>> \o W(<<"j", "a", "v", "a", "s", "c", "r", "i", "p", "t">>) \o <<Bnd>>,
        <<Bnd>> \o W(<<"j", "s">>) \o <<Bnd>>>>],
    \* r"\btypescript\b", r"\bts\b"
    [skill |-> "TypeScript", patterns |-> <<<<Bnd>> \o W(<<"t", "y", "p", "e", "s", "c", "r", "i", "p", "t">>) \o <<Bnd>>,
        <<Bnd>> \o W(<<"t", "s">>) \o <<Bnd>>>>],
    \* r"\bc\+\+\b", r"\bcpp\b"
    [skill |-> "C++", patterns |-> <<<<Bnd>> \o W(<<"c", "+", "+">>) \o <<Bnd>>,
        <<Bnd>> \o W(<<"c", "p", "p">>) \o <<Bnd>>>>],
    \* r"\bc#\b", r"\bcsharp\b"
    [skill |-> "C#", patterns |-> <<<<Bnd>> \o W(<<"c", "#">>) \o <<Bnd>>,
        <<Bnd>> \o W(<<"c", "s", "h", "a", "r", "p">>) \o <<Bnd>>>>],
    \* r"\bgolang\b", r"\bgo\s+(?:programming|language)\b"
    [skill |-> "Go", patterns |-> <<<<Bnd>> \o W(<<"g", "o", "l", "a", "n", "g">>) \o <<Bnd>>,
        <<Bnd>> \o W(<<"g", "o">>) \o <<Rep(1, -1, <<Ws>>)>> \o <<Alt(<<W(<<"p", "r", "o", "g", "r", "a", "m", "m", "i", "n", "g">>), W(<<"l", "a", "n", "g", "u", "a", "g", "e">>)>>)>> \o <<Bnd>>>>],
    \* r"\brust\b"
    [skill |-> "Rust", patterns |-> <<<<Bnd>> \o W(<<"r", "u", "s", "t">>) \o <<Bnd>>>>],
    \* r"\br\s+(?:programming|language|studio)\b", r"\br-lang\b"
    [skill |-> "R", patterns |-> <<<<Bnd>> \o W(<<"r">>) \o <<Rep(1, -1, <<Ws>>)>> \o <<Alt(<<W(<<"p", "r", "o", "g", "r", "a", "m", "m", "i", "n", "g">>), W(<<"l", "a", "n", "g", "u", "a", "g", "e">>), W(<<"s", "t", "u", "d", "i", "o">>)>>)>> \o <<Bnd>>,
        <<Bnd>> \o W(<<"r", "-", "l", "a", "n", "g">>) \o <<Bnd>>>>],
    \* r"\bscala\b"
    [skill |-> "Scala", patterns |-> <<<<Bnd>> \o W(<<"s", "c", "a", "l", "a">>) \o <<Bnd>>>>],
    \* r"\bjulia\b"
    [skill |-> "Julia", patterns |-> <<<<Bnd>> \o W(<<"j", "u", "l", "i", "a">>) \o <<Bnd>>>>],
    \* r"\bmatlab\b"
    [skill |-> "MATLAB", patterns |-> <<<<Bnd>> \o W(<<"m", "a", "t", "l", "a", "b">>) \o <<Bnd>>>>],
    \* r"\bbash\b", r"\bshell\s*script"
    [skill |-> "Bash", patterns |-> <<<<Bnd>> \o W(<<"b", "a", "s", "h">>) \o <<Bnd>>,
        <<Bnd>> \o W(<<"s", "h", "e", "l", "l">>) \o <<Rep(0, -1, <<Ws>>)>> \o W(<<"s", "c", "r", "i", "p", "t">>)>>],
    \* r"\bsql\b"
    [skill |-> "SQL", patterns |-> <<<<Bnd>> \o W(<<"s", "q", "l">>) \o <<Bnd>>>>],
    \* r"\btensorflow\b", r"\btf\b"
    [skill |-> "TensorFlow", patterns |-> <<<<Bnd>> \o W(<<"t", "e", "n", "s", "o", "r", "f", "l", "o", "w">>) \o <<Bnd>>,
        <<Bnd>> \o W(<<"t", "f">>) \o <<Bnd>>>>],
    \* r"\bpytorch\b", r"\btorch\b"
    [skill |-> "PyTorch", patterns |-> <<<<Bnd>> \o W(<<"p", "y", "t", "o", "r", "c", "h">>) \o <<Bnd>>,
        <<Bnd>> \o W(<<"t", "o", "r", "c", "h">>) \o <<Bnd>>>>],
    \* r"\bkeras\b"
    [skill |-> "Keras", patterns |-> <<<<Bnd>> \o W(<<"k", "e", "r", "a", "s">>) \o <<Bnd>>>>],
    \* r"\bscikit-learn\b", r"\bsklearn\b", r"\bscikit\b"
    [skill |-> "scikit-learn", patterns |-> <<<<Bnd>> \o W(<<"s", "c", "i", "k", "i", "t", "-", "l", "e", "a", "r", "n">>) \o <<Bnd>>,
        <<Bnd>> \o W(<<"s", "k", "l", "e", "a", "r", "n">>) \o <<Bnd>>,
        <<Bnd>> \o W(<<"s", "c", "i", "k", "i", "t">>) \o <<Bnd>>>>],
    \* r"\bhugging\s*face\b", r"\bhf\b", r"\btransformers\b"
    [skill |-> "Hugging Face", patterns |-> <<<<Bnd>> \o W(<<"h", "u", "g", "g", "i", "n", "g">>) \o <<Rep(0, -1, <<Ws>>)>> \o W(<<"f", "a", "c", "e">>) \o <<Bnd>>,
        <<Bnd>> \o W(<<"h", "f">>) \o <<Bnd>>,
        <<Bnd>> \o W(<<"t", "r", "a", "n", "s", "f", "o", "r", "m", "e", "r", "s">>) \o <<Bnd>>>>],
    \* r"\bopencv\b"
    [skill |-> "OpenCV", patterns |-> <<<<Bnd>> \o W(<<"o", "p", "e", "n", "c", "v">>) \o <<Bnd>>>>],
    \* r"\bnltk\b"
    [skill |-> "NLTK", patterns |-> <<<<Bnd>> \o W(<<"n", "l", "t", "k">>) \o <<Bnd>>>>],
    \* r"\bspacy\b"
    [skill |-> "spaCy", patterns |-> <<<<Bnd>> \o W(<<"s", "p", "a", "c", "y">>) \o <<Bnd>>>>],
    \* r"\bjax\b"
    [skill |-> "JAX", patterns |-> <<<<Bnd>> \o W(<<"j", "a", "x">>) \o <<Bnd>>>>],
    \* r"\bxgboost\b"
    [skill |-> "XGBoost", patterns |-> <<<<Bnd>> \o W(<<"x", "g", "b", "o", "o", "s", "t">>) \o <<Bnd>>>>],
    \* r"\blightgbm\b"
    [skill |-> "LightGBM", patterns |-> <<<<Bnd>> \o W(<<"l", "i", "g", "h", "t", "g", "b", "m">>) \o <<Bnd>>>>],
    \* r"\bcatboost\b"
    [skill |-> "CatBoost", patterns |-> <<<<Bnd>> \o W(<<"c", "a", "t", "b", "o", "o", "s", "t">>) \o <<Bnd>>>>],
    \* r"\bfastai\b"
    [skill |-> "FastAI", patterns |-> <<<<Bnd>> \o W(<<"f", "a", "s", "t", "a", "i">>) \o <<Bnd>>>>],
    \* r"\bmxnet\b"
    [skill |-> "MXNet", patterns |-> <<<<Bnd>> \o W(<<"m", "x", "n", "e", "t">>) \o <<Bnd>>>>],
    \* r"\btheano\b"
    [skill |-> "Theano", patterns |-> <<<<Bnd>> \o W(<<"t", "h", "e", "a", "n", "o">>) \o <<Bnd>>>>],
    \* r"\bcaffe\b"
    [skill |-> "Caffe", patterns |-> <<<<Bnd>> \o W(<<"c", "a", "f", "f", "e">>) \o <<Bnd>>>>],
    \* r"\bonnx\b"
    [skill |-> "ONNX", patterns |-> <<<<Bnd>> \o W(<<"o", "n", "n", "x">>) \o <<Bnd>>>>],
    \* r"\blangchain\b"
    [skill |-> "LangChain", patterns |-> <<<<Bnd>> \o W(<<"l", "a", "n", "g", "c", "h", "a", "i", "n">>) \o <<Bnd>>>>],
    \* r"\bllamaindex\b", r"\bllama\s*index\b"
    [skill |-> "LlamaIndex", patterns |-> <<<<Bnd>> \o W(<<"l", "l", "a", "m", "a", "i", "n", "d", "e", "x">>) \o <<Bnd>>,
        <<Bnd>> \o W(<<"l", "l", "a", "m", "a">>) \o <<Rep(0, -1, <<Ws>>)>> \o W(<<"i", "n", "d", "e", "x">>) \o <<Bnd>>>>],
    \* r"\bopenai\b"
    [skill |-> "OpenAI API", patterns |-> <<<<Bnd>> \o W(<<"o", "p", "e", "n", "a", "i">>) \o <<Bnd>>>>],
    \* r"\banthropic\b", r"\bclaude\b"
    [skill |-> "Anthropic", patterns |-> <<<<Bnd>> \o W(<<"a", "n", "t", "h", "r", "o", "p", "i", "c">>) \o <<Bnd>>,
        <<Bnd>> \o W(<<"c", "l", "a", "u", "d", "e">>) \o <<Bnd>>>>],
    \* r"\bgpt-?\d?\b", r"\bchatgpt\b"
    [skill |-> "GPT", patterns |-> <<<<Bnd>> \o W(<<"g", "p", "t">>) \o <<Rep(0, 1, W(<<"-">>))>> \o <<Rep(0, 1, <<Digit>>)>> \o <<Bnd>>,
        <<Bnd>> \o W(<<"c", "h", "a", "t", "g", "p", "t">>) \o <<Bnd>>>>],
    \* r"\bllama\b"
    [skill |-> "LLaMA", patterns |-> <<<<Bnd>> \o W(<<"l", "l", "a", "m", "a">>) \o <<Bnd>>>>],
    \* r"\bbert\b"
    [skill |-> "BERT", patterns |-> <<<<Bnd>> \o W(<<"b", "e", "r", "t">>) \o <<Bnd>>>>],
    \* r"\brag\b", r"\bretrieval.augmented\b"
    [skill |-> "RAG", patterns |-> <<<<Bnd>> \o W(<<"r", "a", "g">>) \o <<Bnd>>,
        <<Bnd>> \o W(<<"r", "e", "t", "r", "i", "e", "v", "a", "l">>) \o <<AnyCh>> \o W(<<"a", "u", "g", "m", "e", "n", "t", "e", "d">>) \o <<Bnd>>>>],
    \* r"\bvector\s*(?:db|database)\b", r"\bpinecone\b", r"\bweaviate\b", r"\bchroma\b", r"\bmilvus\b", r"\bqdrant\b"
    [skill |-> "Vector DB", patterns |-> <<<<Bnd>> \o W(<<"v", "e", "c", "t", "o", "r">>) \o <<Rep(0, -1, <<Ws>>)>> \o <<Alt(<<W(<<"d", "b">>), W(<<"d", "a", "t", "a", "b", "a", "s", "e">>)>>)>> \o <<Bnd>>,
        <<Bnd>> \o W(<<"p", "i", "n", "e", "c", "o", "n", "e">>) \o <<Bnd>>,
        <<Bnd>> \o W(<<"w", "e", "a", "v", "i", "a", "t", "e">>) \o <<Bnd>>,
        <<Bnd>> \o W(<<"c", "h", "r", "o", "m", "a">>) \o <<Bnd>>,
        <<Bnd>> \o W(<<"m", "i", "l", "v", "u", "s">>) \o <<Bnd>>,
        <<Bnd>> \o W(<<"q", "d", "r", "a", "n", "t">>) \o <<Bnd>>>>],
    \* r"\baws\b", r"\bamazon\s*web\s*services\b"
    [skill |-> "AWS", patterns |-> <<<<Bnd>> \o W(<<"a", "w", "s">>) \o <<Bnd>>,
        <<Bnd>> \o W(<<"a", "m", "a", "z", "o", "n">>) \o <<Rep(0, -1, <<Ws>>)>> \o W(<<"w", "e", "b">>) \o <<Rep(0, -1, <<Ws>>)>> \o W(<<"s", "e", "r", "v", "i", "c", "e", "s">>) \o <<Bnd>>>>],
    \* r"\bgcp\b", r"\bgoogle\s*cloud\b"
    [skill |-> "GCP", patterns |-> <<<<Bnd>> \o W(<<"g", "c", "p">>) \o <<Bnd>>,
        <<Bnd>> \o W(<<"g", "o", "o", "g", "l", "e">>) \o <<Rep(0, -1, <<Ws>>)>> \o W(<<"c", "l", "o", "u", "d">>) \o <<Bnd>>>>],
    \* r"\bazure\b", r"\bmicrosoft\s*cloud\b"
    [skill |-> "Azure", patterns |-> <<<<Bnd>> \o W(<<"a", "z", "u", "r", "e">>) \o <<Bnd>>,
        <<Bnd>> \o W(<<"m", "i", "c", "r", "o", "s", "o", "f", "t">>) \o <<Rep(0, -1, <<Ws>>)>> \o W(<<"c", "l", "o", "u", "d">>) \o <<Bnd>>>>],
    \* r"\bsagemaker\b"
    [skill |-> "AWS SageMaker", patterns |-> <<<<Bnd>> \o W(<<"s", "a", "g", "e", "m", "a", "k", "e", "r">>) \o <<Bnd>>>>],
    \* r"\bvertex\s*ai\b"
    [skill |-> "Vertex AI", patterns |-> <<<<Bnd>> \o W(<<"v", "e", "r", "t", "e", "x">>) \o <<Rep(0, -1, <<Ws>>)>> \o W(<<"a", "i">>) \o <<Bnd>>>>],
    \* r"\bbedrock\b"
    [skill |-> "AWS Bedrock", patterns |-> <<<<Bnd>> \o W(<<"b", "e", "d", "r", "o", "c", "k">>) \o <<Bnd>>>>],
    \* r"\bdatabricks\b"
    [skill |-> "Databricks", patterns |-> <<<<Bnd>> \o W(<<"d", "a", "t", "a", "b", "r", "i", "c", "k", "s">>) \o <<Bnd>>>>],
    \* r"\bpostgres(?:ql)?\b"
    [skill |-> "PostgreSQL", patterns |-> <<<<Bnd>> \o W(<<"p", "o", "s", "t", "g", "r", "e", "s">>) \o <<Rep(0, 1, <<Alt(<<W(<<"q", "l">>)>>)>>)>> \o <<Bnd>>>>],
    \* r"\bmysql\b"
    [skill |-> "MySQL", patterns |-> <<<<Bnd>> \o W(<<"m", "y", "s", "q", "l">>) \o <<Bnd>>>>],
    \* r"\bmongodb\b", r"\bmongo\b"
    [skill |-> "MongoDB", patterns |-> <<<<Bnd>> \o W(<<"m", "o", "n", "g", "o", "d", "b">>) \o <<Bnd>>,
        <<Bnd>> \o W(<<"m", "o", "n", "g", "o">>) \o <<Bnd>>>>],
    \* r"\bredis\b"
    [skill |-> "Redis", patterns |-> <<<<Bnd>> \o W(<<"r", "e", "d", "i", "s">>) \o <<Bnd>>>>],
    \* r"\belasticsearch\b", r"\belastic\b"
    [skill |-> "Elasticsearch", patterns |-> <<<<Bnd>> \o W(<<"e", "l", "a", "s", "t", "i", "c", "s", "e", "a", "r", "c", "h">>) \o <<Bnd>>,
        <<Bnd>> \o W(<<"e", "l", "a", "s", "t", "i", "c">>) \o <<Bnd>>>>],
    \* r"\bsnowflake\b"
    [skill |-> "Snowflake", patterns |-> <<<<Bnd>> \o W(<<"s", "n", "o", "w", "f", "l", "a", "k", "e">>) \o <<Bnd>>>>],
    \* r"\bbigquery\b"
    [skill |-> "BigQuery", patterns |-> <<<<Bnd>> \o W(<<"b", "i", "g", "q", "u", "e", "r", "y">>) \o <<Bnd>>>>],
    \* r"\bredshift\b"
    [skill |-> "Redshift", patterns |-> <<<<Bnd>> \o W(<<"r", "e", "d", "s", "h", "i", "f", "t">>) \o <<Bnd>>>>],
    \* r"\bcassandra\b"
    [skill |-> "Cassandra", patterns |-> <<<<Bnd>> \o W(<<"c", "a", "s", "s", "a", "n", "d", "r", "a">>) \o <<Bnd>>>>],
    \* r"\bdynamodb\b"
    [skill |-> "DynamoDB", patterns |-> <<<<Bnd>> \o W(<<"d", "y", "n", "a", "m", "o", "d", "b">>) \o <<Bnd>>>>],
    \* r"\bspark\b", r"\bpyspark\b"
    [skill |-> "Apache Spark", patterns |-> <<<<Bnd>> \o W(<<"s", "p", "a", "r", "k">>) \o <<Bnd>>,
        <<Bnd>> \o W(<<"p", "y", "s", "p", "a", "r", "k">>) \o <<Bnd>>>>],
    \* r"\bhadoop\b"
    [skill |-> "Hadoop", patterns |-> <<<<Bnd>> \o W(<<"h", "a", "d", "o", "o", "p">>) \o <<Bnd>>>>],
    \* r"\bkafka\b"
    [skill |-> "Kafka", patterns |-> <<<<Bnd>> \o W(<<"k", "a", "f", "k", "a">>) \o <<Bnd>>>>],
    \* r"\bairflow\b"
    [skill |-> "Airflow", patterns |-> <<<<Bnd>> \o W(<<"a", "i", "r", "f", "l", "o", "w">>) \o <<Bnd>>>>],
    \* r"\bdbt\b"
    [skill |-> "dbt", patterns |-> <<<<Bnd>> \o W(<<"d", "b", "t">>) \o <<Bnd>>>>],
    \* r"\bflink\b"
    [skill |-> "Flink", patterns |-> <<<<Bnd>> \o W(<<"f", "l", "i", "n", "k">>) \o <<Bnd>>>>],
    \* r"\bpandas\b"
    [skill |-> "Pandas", patterns |-> <<<<Bnd>> \o W(<<"p", "a", "n", "d", "a", "s">>) \o <<Bnd>>>>],
    \* r"\bnumpy\b"
    [skill |-> "NumPy", patterns |-> <<<<Bnd>> \o W(<<"n", "u", "m", "p", "y">>) \o <<Bnd>>>>],
    \* r"\bscipy\b"
    [skill |-> "SciPy", patterns |-> <<<<Bnd>> \o W(<<"s", "c", "i", "p", "y">>) \o <<Bnd>>>>],
    \* r"\bpolars\b"
    [skill |-> "Polars", patterns |-> <<<<Bnd>> \o W(<<"p", "o", "l", "a", "r", "s">>) \o <<Bnd>>>>],
    \* r"\bdask\b"
    [skill |-> "Dask", patterns |-> <<<<Bnd>> \o W(<<"d", "a", "s", "k">>) \o <<Bnd>>>>],
    \* r"\bdocker\b"
    [skill |-> "Docker", patterns |-> <<<<Bnd>> \o W(<<"d", "o", "c", "k", "e", "r">>) \o <<Bnd>>>>],
    \* r"\bkubernetes\b", r"\bk8s\b"
    [skill |-> "Kubernetes", patterns |-> <<<<Bnd>> \o W(<<"k", "u", "b", "e", "r", "n", "e", "t", "e", "s">>) \o <<Bnd>>,
        <<Bnd>> \o W(<<"k", "8", "s">>) \o <<Bnd>>>>],
    \* r"\bgit\b(?!hub|lab)"
    [skill |-> "Git", patterns |-> <<<<Bnd>> \o W(<<"g", "i", "t">>) \o <<Bnd>> \o <<NotAhead(<<W(<<"h", "u", "b">>), W(<<"l", "a", "b">>)>>)>>>>],
    \* r"\bgithub\b"
    [skill |-> "GitHub", patterns |-> <<<<Bnd>> \o W(<<"g", "i", "t", "h", "u", "b">>) \o <<Bnd>>>>],
    \* r"\bgitlab\b"
    [skill |-> "GitLab", patterns |-> <<<<Bnd>> \o W(<<"g", "i", "t", "l", "a", "b">>) \o <<Bnd>>>>],
    \* r"\bci/?cd\b", r"\bcontinuous\s*integration\b"
    [skill |-> "CI/CD", patterns |-> <<<<Bnd>> \o W(<<"c", "i">>) \o <<Rep(0, 1, W(<<"/">>))>> \o W(<<"c", "d">>) \o <<Bnd>>,
        <<Bnd>> \o W(<<"c", "o", "n", "t", "i", "n", "u", "o", "u", "s">>) \o <<Rep(0, -1, <<Ws>>)>> \o W(<<"i", "n", "t", "e", "g", "r", "a", "t", "i", "o", "n">>) \o <<Bnd>>>>],
    \* r"\bjenkins\b"
    [skill |-> "Jenkins", patterns |-> <<<<Bnd>> \o W(<<"j", "e", "n", "k", "i", "n", "s">>) \o <<Bnd>>>>],
    \* r"\bterraform\b"
    [skill |-> "Terraform", patterns |-> <<<<Bnd>> \o W(<<"t", "e", "r", "r", "a", "f", "o", "r", "m">>) \o <<Bnd>>>>],
    \* r"\bansible\b"
    [skill |-> "Ansible", patterns |-> <<<<Bnd>> \o W(<<"a", "n", "s", "i", "b", "l", "e">>) \o <<Bnd>>>>],
    \* r"\bmlflow\b"
    [skill |-> "MLflow", patterns |-> <<<<Bnd>> \o W(<<"m", "l", "f", "l", "o", "w">>) \o <<Bnd>>>>],
    \* r"\bkubeflow\b"
    [skill |-> "Kubeflow", patterns |-> <<<<Bnd>> \o W(<<"k", "u", "b", "e", "f", "l", "o", "w">>) \o <<Bnd>>>>],
    \* r"\bwandb\b", r"\bweights\s*(?:&|and)\s*biases\b"
    [skill |-> "Weights & Biases", patterns |-> <<<<Bnd>> \o W(<<"w", "a", "n", "d", "b">>) \o <<Bnd>>,
        <<Bnd>> \o W(<<"w", "e", "i", "g", "h", "t", "s">>) \o <<Rep(0, -1, <<Ws>>)>> \o <<Alt(<<W(<<"&">>), W(<<"a", "n", "d">>)>>)>> \o <<Rep(0, -1, <<Ws>>)>> \o W(<<"b", "i", "a", "s", "e", "s">>) \o <<Bnd>>>>],
    \* r"\bdvc\b"
    [skill |-> "DVC", patterns |-> <<<<Bnd>> \o W(<<"d", "v", "c">>) \o <<Bnd>>>>],
    \* r"\bbentoml\b"
    [skill |-> "BentoML", patterns |-> <<<<Bnd>> \o W(<<"b", "e", "n", "t", "o", "m", "l">>) \o <<Bnd>>>>],
    \* r"\bmatplotlib\b"
    [skill |-> "Matplotlib", patterns |-> <<<<Bnd>> \o W(<<"m", "a", "t", "p", "l", "o", "t", "l", "i", "b">>) \o <<Bnd>>>>],
    \* r"\bseaborn\b"
    [skill |-> "Seaborn", patterns |-> <<<<Bnd>> \o W(<<"s", "e", "a", "b", "o", "r", "n">>) \o <<Bnd>>>>],
    \* r"\bplotly\b"
    [skill |-> "Plotly", patterns |-> <<<<Bnd>> \o W(<<"p", "l", "o", "t", "l", "y">>) \o <<Bnd>>>>],
    \* r"\btableau\b"
    [skill |-> "Tableau", patterns |-> <<<<Bnd>> \o W(<<"t", "a", "b", "l", "e", "a", "u">>) \o <<Bnd>>>>],
    \* r"\bpower\s*bi\b"
    [skill |-> "Power BI", patterns |-> <<<<Bnd>> \o W(<<"p", "o", "w", "e", "r">>) \o <<Rep(0, -1, <<Ws>>)>> \o W(<<"b", "i">>) \o <<Bnd>>>>],
    \* r"\bgrafana\b"
    [skill |-> "Grafana", patterns |-> <<<<Bnd>> \o W(<<"g", "r", "a", "f", "a", "n", "a">>) \o <<Bnd>>>>],
    \* r"\bd3\.?js\b", r"\bd3\b"
    [skill |-> "D3.js", patterns |-> <<<<Bnd>> \o W(<<"d", "3">>) \o <<Rep(0, 1, W(<<".">>))>> \o W(<<"j", "s">>) \o <<Bnd>>,
        <<Bnd>> \o W(<<"d", "3">>) \o <<Bnd>>>>],
    \* r"\bcnn\b", r"\bconvolutional\b"
    [skill |-> "CNN", patterns |-> <<<<Bnd>> \o W(<<"c", "n", "n">>) \o <<Bnd>>,
        <<Bnd>> \o W(<<"c", "o", "n", "v", "o", "l", "u", "t", "i", "o", "n", "a", "l">>) \o <<Bnd>>>>],
    \* r"\brnn\b", r"\brecurrent\b"
    [skill |-> "RNN", patterns |-> <<<<Bnd>> \o W(<<"r", "n", "n">>) \o <<Bnd>>,
        <<Bnd>> \o W(<<"r", "e", "c", "u", "r", "r", "e", "n", "t">>) \o <<Bnd>>>>],
    \* r"\blstm\b"
    [skill |-> "LSTM", patterns |-> <<<<Bnd>> \o W(<<"l", "s", "t", "m">>) \o <<Bnd>>>>],
    \* r"\bgan\b", r"\bgenerative\s*adversarial\b"
    [skill |-> "GAN", patterns |-> <<<<Bnd>> \o W(<<"g", "a", "n">>) \o <<Bnd>>,
        <<Bnd>> \o W(<<"g", "e", "n", "e", "r", "a", "t", "i", "v", "e">>) \o <<Rep(0, -1, <<Ws>>)>> \o W(<<"a", "d", "v", "e", "r", "s", "a", "r", "i", "a", "l">>) \o <<Bnd>>>>],
    \* r"\btransformer(?:s)?\b"
    [skill |-> "Transformer", patterns |-> <<<<Bnd>> \o W(<<"t", "r", "a", "n", "s", "f", "o", "r", "m", "e", "r">>) \o <<Rep(0, 1, <<Alt(<<W(<<"s">>)>>)>>)>> \o <<Bnd>>>>],
    \* r"\battention\s*mechanism\b", r"\bself-attention\b"
    [skill |-> "Attention", patterns |-> <<<<Bnd>> \o W(<<"a", "t", "t", "e", "n", "t", "i", "o", "n">>) \o <<Rep(0, -1, <<Ws>>)>> \o W(<<"m", "e", "c", "h", "a", "n", "i", "s", "m">>) \o <<Bnd>>,
        <<Bnd>> \o W(<<"s", "e", "l", "f", "-", "a", "t", "t", "e", "n", "t", "i", "o", "n">>) \o <<Bnd>>>>],
    \* r"\bdiffusion\s*model\b"
    [skill |-> "Diffusion", patterns |-> <<<<Bnd>> \o W(<<"d", "i", "f", "f", "u", "s", "i", "o", "n">>) \o <<Rep(0, -1, <<Ws>>)>> \o W(<<"m", "o", "d", "e", "l">>) \o <<Bnd>>>>],
    \* r"\bnlp\b", r"\bnatural\s*language\s*processing\b"
    [skill |-> "NLP", patterns |-> <<<<Bnd>> \o W(<<"n", "l", "p">>) \o <<Bnd>>,
        <<Bnd>> \o W(<<"n", "a", "t", "u", "r", "a", "l">>) \o <<Rep(0, -1, <<Ws>>)>> \o W(<<"l", "a", "n", "g", "u", "a", "g", "e">>) \o <<Rep(0, -1, <<Ws>>)>> \o W(<<"p", "r", "o", "c", "e", "s", "s", "i", "n", "g">>) \o <<Bnd>>>>],
    \* r"\bcomputer\s*vision\b", r"\bcv\b"
    [skill |-> "Computer Vision", patterns |-> <<<<Bnd>> \o W(<<"c", "o", "m", "p", "u", "t", "e", "r">>) \o <<Rep(0, -1, <<Ws>>)>> \o W(<<"v", "i", "s", "i", "o", "n">>) \o <<Bnd>>,
        <<Bnd>> \o W(<<"c", "v">>) \o <<Bnd>>>>],
    \* r"\bdeep\s*learning\b", r"\bdl\b"
    [skill |-> "Deep Learning", patterns |-> <<<<Bnd>> \o W(<<"d", "e", "e", "p">>) \o <<Rep(0, -1, <<Ws>>)>> \o W(<<"l", "e", "a", "r", "n", "i", "n", "g">>) \o <<Bnd>>,
        <<Bnd>> \o W(<<"d", "l">>) \o <<Bnd>>>>],
    \* r"\breinforcement\s*learning\b", r"\brl\b"
    [skill |-> "Reinforcement Learning", patterns |-> <<<<Bnd>> \o W(<<"r", "e", "i", "n", "f", "o", "r", "c", "e", "m", "e", "n", "t">>) \o <<Rep(0, -1, <<Ws>>)>> \o W(<<"l", "e", "a", "r", "n", "i", "n", "g">>) \o <<Bnd>>,
        <<Bnd>> \o W(<<"r", "l">>) \o <<Bnd>>>>],
    \* r"\btime\s*series\b"
    [skill |-> "Time Series", patterns |-> <<<<Bnd>> \o W(<<"t", "i", "m", "e">>) \o <<Rep(0, -1, <<Ws>>)>> \o W(<<"s", "e", "r", "i", "e", "s">>) \o <<Bnd>>>>],
    \* r"\brecommend(?:ation|er)\s*(?:system|engine)?\b"
    [skill |-> "Recommendation Systems", patterns |-> <<<<Bnd>> \o W(<<"r", "e", "c", "o", "m", "m", "e", "n", "d">>) \o <<Alt(<<W(<<"a", "t", "i", "o", "n">>), W(<<"e", "r">>)>>)>> \o <<Rep(0, -1, <<Ws>>)>> \o <<Rep(0, 1, <<Alt(<<W(<<"s", "y", "s", "t", "e", "m">>), W(<<"e", "n", "g", "i", "n", "e">>)>>)>>)>> \o <<Bnd>>>>],
    \* r"\blinux\b", r"\bunix\b"
    [skill |-> "Linux", patterns |-> <<<<Bnd>> \o W(<<"l", "i", "n", "u", "x">>) \o <<Bnd>>,
        <<Bnd>> \o W(<<"u", "n", "i", "x">>) \o <<Bnd>>>>],
    \* r"\bjupyter\b", r"\bnotebook\b"
    [skill |-> "Jupyter", patterns |-> <<<<Bnd>> \o W(<<"j", "u", "p", "y", "t", "e", "r">>) \o <<Bnd>>,
        <<Bnd>> \o W(<<"n", "o", "t", "e", "b", "o", "o", "k">>) \o <<Bnd>>>>],
    \* r"\bvs\s*code\b", r"\bvscode\b"
    [skill |-> "VS Code", patterns |-> <<<<Bnd>> \o W(<<"v", "s">>) \o <<Rep(0, -1, <<Ws>>)>> \o W(<<"c", "o", "d", "e">>) \o <<Bnd>>,
        <<Bnd>> \o W(<<"v", "s", "c", "o", "d", "e">>) \o <<Bnd>>>>],
    \* r"\bcuda\b"
    [skill |-> "CUDA", patterns |-> <<<<Bnd>> \o W(<<"c", "u", "d", "a">>) \o <<Bnd>>>>],
    \* r"\bfastapi\b"
    [skill |-> "FastAPI", patterns |-> <<<<Bnd>> \o W(<<"f", "a", "s", "t", "a", "p", "i">>) \o <<Bnd>>>>],
    \* r"\bflask\b"
    [skill |-> "Flask", patterns |-> <<<<Bnd>> \o W(<<"f", "l", "a", "s", "k">>) \o <<Bnd>>>>],
    \* r"\bdjango\b"
    [skill |-> "Django", patterns |-> <<<<Bnd>> \o W(<<"d", "j", "a", "n", "g", "o">>) \o <<Bnd>>>>],
    \* r"\brest\s*api\b", r"\brestful\b"
    [skill |-> "REST API", patterns |-> <<<<Bnd>> \o W(<<"r", "e", "s", "t">>) \o <<Rep(0, -1, <<Ws>>)>> \o W(<<"a", "p", "i">>) \o <<Bnd>>,
        <<Bnd>> \o W(<<"r", "e", "s", "t", "f", "u", "l">>) \o <<Bnd>>>>],
    \* r"\bgraphql\b"
    [skill |-> "GraphQL", patterns |-> <<<<Bnd>> \o W(<<"g", "r", "a", "p", "h", "q", "l">>) \o <<Bnd>>>>],
    \* r"\bgrpc\b"
    [skill |-> "gRPC", patterns |-> <<<<Bnd>> \o W(<<"g", "r", "p", "c">>) \o <<Bnd>>>>]
>>

\* lines 151-154: every rule of every entry compiled once.  A compiled
\* pattern object is immutable; it is identified by the entry k and the rule r
\* it was compiled from, and matches as that rule does, ignoring case
\* (re.IGNORECASE, see MatchNode)
CompilePatterns(predefined) ==
    [k \in DOMAIN predefined |->
        [skill |-> predefined[k].skill,
         patterns |-> [r \in DOMAIN predefined[k].patterns |-> <<k, r>>]]]

\* variant: pattern.match(s), which looks only at the start of s
PatternSearch_match(pattern, s) ==
    MatchSeq(PREDEFINED_SKILLS[pattern[1]].patterns[pattern[2]], 1, s, {0}) # {}

\* pattern.search(s) of a compiled pattern object
PatternSearch(pattern, s) ==
    Search(PREDEFINED_SKILLS[pattern[1]].patterns[pattern[2]], s)

-----------------------------------------------------------------------------
(* extract_skills_regex, lines 157-180 *)

\* variant: the break of line 178 one level out, so that the loop ends after
\* the first rule whether it matched or not
AnyPatternFound_first_rule_only(patterns, i, text_lower) ==
    patterns # <<>> /\ PatternSearch(patterns[1], text_lower)

\* inner loop, lines 175-178: the first matching rule ends the loop (break)
RECURSIVE AnyPatternFound(_, _, _)
AnyPatternFound(patterns, i, text_lower) ==
    IF i > Len(patterns) THEN FALSE
    ELSE IF PatternSearch(patterns[i], text_lower) THEN TRUE
    ELSE AnyPatternFound(patterns, i + 1, text_lower)

\* outer loop, lines 174-178: one pass over the items of COMPILED_PATTERNS,
\* adding the skill of every item one of whose rules is found
ExtractLoop(compiled, text_lower) ==
    {compiled[k].skill :
        k \in {j \in DOMAIN compiled : AnyPatternFound(compiled[j].patterns, 1, text_lower)}}

\* text.lower(), line 172: a str has the method, None has not
lower(v) ==
    IF v.type = "str" THEN Ok(ToLower(v.s)) ELSE Raise("AttributeError")

\* variant: the guard of line 168 written text == "", which lets None through
extract_skills_regex_empty_str_guard(v, compiled) ==
    IF v = Str(<<>>) THEN Ok({})
    ELSE LET text_lower == lower(v)
         IN  IF text_lower.raised # "none" THEN text_lower
             ELSE Ok(ExtractLoop(compiled, text_lower.value))

\* the function, given the value of the module global it reads
extract_skills_regex(v, compiled) ==
    IF ~Truthy(v) THEN Ok({})
    ELSE LET text_lower == lower(v)
         IN  IF text_lower.raised # "none" THEN text_lower
             ELSE Ok(ExtractLoop(compiled, text_lower.value))

-----------------------------------------------------------------------------
(* Texts the calls are made with *)

\* "Python Python Python"
TextPythonThrice ==
    Str(<<"P", "y", "t", "h", "o", "n", " ", "P", "y", "t", "h", "o", "n",
          " ", "P", "y", "t", "h", "o", "n">>)

\* "We use JavaScript heavily"
TextJavaScript ==
    Str(<<"W", "e", " ", "u", "s", "e", " ", "J", "a", "v", "a", "S", "c",
          "r", "i", "p", "t", " ", "h", "e", "a", "v", "i", "l", "y">>)

\* "We use Java heavily"
TextJava ==
    Str(<<"W", "e", " ", "u", "s", "e", " ", "J", "a", "v", "a", " ", "h",
          "e", "a", "v", "i", "l", "y">>)

\* "Experience with GitHub Actions"
TextGitHub ==
    Str(<<"E", "x", "p", "e", "r", "i", "e", "n", "c", "e", " ", "w", "i",
          "t", "h", " ", "G", "i", "t", "H", "u", "b", " ", "A", "c", "t",
          "i", "o", "n", "s">>)

\* "C++ developer"
TextCpp ==
    Str(<<"C", "+", "+", " ", "d", "e", "v", "e", "l", "o", "p", "e", "r">>)

\* "experience in C#"
TextCSharp ==
    Str(<<"e", "x", "p", "e", "r", "i", "e", "n", "c", "e", " ", "i", "n",
          " ", "C", "#">>)

\* "C++, C#."
TextCppCSharpList == Str(<<"C", "+", "+", ",", " ", "C", "#", ".">>)

\* "Python, TensorFlow, AWS, Docker, SQL"
TextScenarioA ==
    Str(<<"P", "y", "t", "h", "o", "n", ",", " ", "T", "e", "n", "s", "o",
          "r", "F", "l", "o", "w", ",", " ", "A", "W", "S", ",", " ", "D",
          "o", "c", "k", "e", "r", ",", " ", "S", "Q", "L">>)

\* "Python, PyTorch, GCP, Kubernetes, SQL"
TextScenarioB ==
    Str(<<"P", "y", "t", "h", "o", "n", ",", " ", "P", "y", "T", "o", "r",
          "c", "h", ",", " ", "G", "C", "P", ",", " ", "K", "u", "b", "e",
          "r", "n", "e", "t", "e", "s", ",", " ", "S", "Q", "L">>)

\* "Java, TensorFlow, Azure, Docker, MongoDB"
TextScenarioC ==
    Str(<<"J", "a", "v", "a", ",", " ", "T", "e", "n", "s", "o", "r", "F",
          "l", "o", "w", ",", " ", "A", "z", "u", "r", "e", ",", " ", "D",
          "o", "c", "k", "e", "r", ",", " ", "M", "o", "n", "g", "o", "D",
          "B">>)

\* "Sales Lead at Acme"
TextNoSkill ==
    Str(<<"S", "a", "l", "e", "s", " ", "L", "e", "a", "d", " ", "a", "t",
          " ", "A", "c", "m", "e">>)

\* "JS and PYTHON"
TextJsPython ==
    Str(<<"J", "S", " ", "a", "n", "d", " ", "P", "Y", "T", "H", "O", "N">>)

\* "WE USE JAVA HEAVILY"
TextJavaUpper ==
    Str(<<"W", "E", " ", "U", "S", "E", " ", "J", "A", "V", "A", " ", "H",
          "E", "A", "V", "I", "L", "Y">>)

\* "we use javascript heavily"
TextJavaScriptLower ==
    Str(<<"w", "e", " ", "u", "s", "e", " ", "j", "a", "v", "a", "s", "c",
          "r", "i", "p", "t", " ", "h", "e", "a", "v", "i", "l", "y">>)

\* "Experience with GitLab CI"
TextGitLab ==
    Str(<<"E", "x", "p", "e", "r", "i", "e", "n", "c", "e", " ", "w", "i",
          "t", "h", " ", "G", "i", "t", "L", "a", "b", " ", "C", "I">>)

TextEmpty == Str(<<>>)

TextUniverse ==
    {None, TextEmpty, TextPythonThrice, TextJavaScript, TextJava, TextGitHub,
     TextCpp, TextCSharp, TextScenarioA, TextScenarioB,
     TextScenarioC, TextNoSkill, TextJsPython, TextJavaUpper,
     TextJavaScriptLower, TextGitLab, TextCppCSharpList}

\* "python java rust scala julia matlab bash sql docker kubernetes github
\* gitlab jenkins terraform ansible aws azure gcp tensorflow pytorch keras
\* pandas numpy scipy spark kafka"
TextManyA ==
    Str(<<"p", "y", "t", "h", "o", "n", " ", "j", "a", "v", "a", " ", "r",
          "u", "s", "t", " ", "s", "c", "a", "l", "a", " ", "j", "u", "l",
          "i", "a", " ", "m", "a", "t", "l", "a", "b", " ", "b", "a", "s",
          "h", " ", "s", "q", "l", " ", "d", "o", "c", "k", "e", "r", " ",
          "k", "u", "b", "e", "r", "n", "e", "t", "e", "s", " ", "g", "i",
          "t", "h", "u", "b", " ", "g", "i", "t", "l", "a", "b", " ", "j",
          "e", "n", "k", "i", "n", "s", " ", "t", "e", "r", "r", "a", "f",
          "o", "r", "m", " ", "a", "n", "s", "i", "b", "l", "e", " ", "a",
          "w", "s", " ", "a", "z", "u", "r", "e", " ", "g", "c", "p", " ",
          "t", "e", "n", "s", "o", "r", "f", "l", "o", "w", " ", "p", "y",
          "t", "o", "r", "c", "h", " ", "k", "e", "r", "a", "s", " ", "p",
          "a", "n", "d", "a", "s", " ", "n", "u", "m", "p", "y", " ", "s",
          "c", "i", "p", "y", " ", "s", "p", "a", "r", "k", " ", "k", "a",
          "f", "k", "a">>)

\* "hadoop airflow mlflow kubeflow redis mongodb postgresql mysql
\* elasticsearch snowflake databricks tableau flask django fastapi linux
\* golang typescript javascript langchain openai bert opencv xgboost lightgbm"
TextManyB ==
    Str(<<"h", "a", "d", "o", "o", "p", " ", "a", "i", "r", "f", "l", "o",
          "w", " ", "m", "l", "f", "l", "o", "w", " ", "k", "u", "b", "e",
          "f", "l", "o", "w", " ", "r", "e", "d", "i", "s", " ", "m", "o",
          "n", "g", "o", "d", "b", " ", "p", "o", "s", "t", "g", "r", "e",
          "s", "q", "l", " ", "m", "y", "s", "q", "l", " ", "e", "l", "a",
          "s", "t", "i", "c", "s", "e", "a", "r", "c", "h", " ", "s", "n",
          "o", "w", "f", "l", "a", "k", "e", " ", "d", "a", "t", "a", "b",
          "r", "i", "c", "k", "s", " ", "t", "a", "b", "l", "e", "a", "u",
          " ", "f", "l", "a", "s", "k", " ", "d", "j", "a", "n", "g", "o",
          " ", "f", "a", "s", "t", "a", "p", "i", " ", "l", "i", "n", "u",
          "x", " ", "g", "o", "l", "a", "n", "g", " ", "t", "y", "p", "e",
          "s", "c", "r", "i", "p", "t", " ", "j", "a", "v", "a", "s", "c",
          "r", "i", "p", "t", " ", "l", "a", "n", "g", "c", "h", "a", "i",
          "n", " ", "o", "p", "e", "n", "a", "i", " ", "b", "e", "r", "t",
          " ", "o", "p", "e", "n", "c", "v", " ", "x", "g", "b", "o", "o",
          "s", "t", " ", "l", "i", "g", "h", "t", "g", "b", "m">>)

\* descriptions that name many skills: 26 and 25, 51 together
ManyTexts == {TextManyA, TextManyB}

ImportedPatterns == CompilePatterns(PREDEFINED_SKILLS)

\* extract_skills_regex tabulated over the texts, for the lexicon as compiled
\* at import
MatchTable ==
    [v \in TextUniverse \cup ManyTexts |-> extract_skills_regex(v, ImportedPatterns)]

\* variant: found_skills kept at module level and never reset (line 171
\* missing), so a call on a non-empty text adds to what the call before it
\* found
call_extract_skills_regex_shared_set(v) ==
    IF Truthy(v) /\ MatchTable[v].raised = "none"
    THEN Ok(found_skills \cup MatchTable[v].value)
    ELSE MatchTable[v]

\* the call extract_skills_regex(v) as the program makes it: the rules are the
\* current value of the module global; the table is read when the global
\* still has its import-time value, which gives the same outcome
call_extract_skills_regex(v) ==
    IF COMPILED_PATTERNS = ImportedPatterns /\ v \in DOMAIN MatchTable
    THEN MatchTable[v]
    ELSE extract_skills_regex(v, COMPILED_PATTERNS)

-----------------------------------------------------------------------------
(* Python sets of str: a set object iterates in an order fixed by the hashes *)
(* of its elements, and str hashes depend on the per-process hash seed.  A  *)
(* set object is modelled by the sequence of its elements in iteration      *)
(* order.                                                                   *)

\* the names of the lexicon, in dict order
SkillNames == [k \in DOMAIN PREDEFINED_SKILLS |-> PREDEFINED_SKILLS[k].skill]

\* hash of a str under a seed.  The hash of a skill name is a product of the
\* name's position in the lexicon, which stands for the bytes of the name, and
\* of a multiplier the seed fixes, modulo a prime above every position: seed 1
\* orders the names as the lexicon does, seed 2 in reverse, the others
\* otherwise
HashTable(names, seed) ==
    LET modulus == Len(names) + 1
        multiplier == IF seed % 2 = 1 THEN (seed + 1) \div 2
                      ELSE modulus - (seed \div 2)
    IN  [name \in Range(names) |->
            ((CHOOSE k \in DOMAIN names : names[k] = name) * multiplier) % modulus]

\* the names in the order of their hashes.  The multiplier being no multiple
\* of the prime modulus, the hashes of the names are the numbers 1..Len(names)
\* in some order
NamesByHash(names, seed) ==
    [h \in 1..Len(names) |->
        CHOOSE name \in Range(names) : HashTable(names, seed)[name] = h]

MaxHashSeed == 2    \* hash seeds a process may run with

\* the order in which a traversal meets the names of the lexicon, seed by seed
IterationOrder == [seed \in 1..MaxHashSeed |-> NamesByHash(SkillNames, seed)]

\* the elements of S in iteration order: a traversal meets them by rising hash
SetIterOrder(S, order) == SelectSeq(order, LAMBDA name : name \in S)

\* list(skills) of a set of skill names in a process running with the seed
SetToList(S, seed) == SetIterOrder(S, IterationOrder[seed])

-----------------------------------------------------------------------------
(* aggregate_skills, lines 183-196 *)

HasKey(counter, name) == \E i \in DOMAIN counter : counter[i].skill = name

\* how many elements of skills are name: 0 or 1, a set object having no
\* element twice
Occurrences(skills, name) == Cardinality({i \in DOMAIN skills : skills[i] = name})

\* variant: self[elem] = 1, which never counts a second set
counter_add_assign(count, times) == IF times > 0 THEN 1 ELSE count

\* self[elem] = self.get(elem, 0) + 1, done for every element that is the key
counter_add(count, times) == count + times

\* the elements of skills that are no key of the counter, in their order
NewKeys(counter, skills) == SelectSeq(skills, LAMBDA name : ~HasKey(counter, name))

\* Counter.update(skills), line 195: one addition per element, in the
\* iteration order of the set.  A key keeps its place in dict order, and the
\* new keys go behind the old ones in the order in which they are met
counter_update(counter, skills) ==
    [k \in DOMAIN counter |->
        [counter[k] EXCEPT !.count = counter_add(@, Occurrences(skills, counter[k].skill))]]
    \o [k \in DOMAIN NewKeys(counter, skills) |->
        [skill |-> NewKeys(counter, skills)[k], count |-> counter_add(0, 1)]]

\* the loop of lines 194-195 from the i-th set on
RECURSIVE AggregateLoop(_, _, _)
AggregateLoop(counter, sets, i) ==
    IF i > Len(sets) THEN counter
    ELSE AggregateLoop(counter_update(counter, sets[i]), sets, i + 1)

\* variant: the counter built from the first set (Counter(skill_sets[0]))
\* before the loop runs over every set, the first included
aggregate_skills_seeded(sets) ==
    AggregateLoop(IF sets = <<>> THEN <<>> ELSE counter_update(<<>>, sets[1]),
                  sets, 1)

aggregate_skills(sets) == AggregateLoop(<<>>, sets, 1)

-----------------------------------------------------------------------------
(* rank_skills, lines 199-207 *)

\* default of the parameter top_n
DefaultTopN == 50

\* numbers are exact fractions num/den with den > 0
Number(n) == [num |-> n, den |-> 1]

\* count / total_jobs: true division of ints
TrueDiv(a, b) ==
    IF b = 0 THEN Raise("ZeroDivisionError")
    ELSE Ok(IF b > 0 THEN [num |-> a, den |-> b] ELSE [num |-> -a, den |-> -b])

\* the largest and the smallest count of a list of items that is not empty
LargestCount(items) ==
    items[CHOOSE i \in DOMAIN items : \A j \in DOMAIN items : items[j].count <= items[i].count].count

SmallestCount(items) ==
    items[CHOOSE i \in DOMAIN items : \A j \in DOMAIN items : items[i].count <= items[j].count].count

\* variant: an unstable sort, which turns the items of one count around
WithCount_unstable(items, c) ==
    [k \in DOMAIN SelectSeq(items, LAMBDA item : item.count = c) |->
        SelectSeq(items, LAMBDA item : item.count = c)
            [Len(SelectSeq(items, LAMBDA item : item.count = c)) + 1 - k]]

\* sorted(items, key=itemgetter(1), reverse=True) is stable: the items of one
\* count stay in the order they have in items
WithCount(items, c) == SelectSeq(items, LAMBDA item : item.count = c)

\* variant: reverse=True missing, the order is ascending
ReverseOrder_missing(same, smaller) == smaller \o same

\* reverse=True: the items of a count go before the items of the smaller counts
ReverseOrder(same, smaller) == same \o smaller

\* the items whose count is between lowest and c, sorted
RECURSIVE SortByCountDesc(_, _, _)
SortByCountDesc(items, c, lowest) ==
    IF c < lowest THEN <<>>
    ELSE ReverseOrder(WithCount(items, c), SortByCountDesc(items, c - 1, lowest))

\* sorted(items, key=itemgetter(1), reverse=True)
sorted_by_count(items) ==
    IF items = <<>> THEN <<>>
    ELSE SortByCountDesc(items, LargestCount(items), SmallestCount(items))

\* variant: most_common() without its argument, every item returned
most_common_all(counter, n) == sorted_by_count(counter)

\* Counter.most_common(n): the n first items of the stable descending order
most_common(counter, n) ==
    LET sorted == sorted_by_count(counter)
    IN  IF n <= 0 THEN <<>>
        ELSE SubSeq(sorted, 1, IF n < Len(sorted) THEN n ELSE Len(sorted))

\* variant: line 205 without its condition
percentage_unguarded(count, total) ==
    LET q == TrueDiv(count, total)
    IN  IF q.raised # "none" THEN q
        ELSE Ok([num |-> q.value.num * 100, den |-> q.value.den])

\* line 205
percentage(count, total) ==
    IF total > 0
    THEN LET q == TrueDiv(count, total)
         IN  IF q.raised # "none" THEN q
             ELSE Ok([num |-> q.value.num * 100, den |-> q.value.den])
    ELSE Ok(Number(0))

\* lines 203-207: the loop appends entry after entry; the first exception
\* ends the call
rank_skills(counter, total, n) ==
    LET common == most_common(counter, n)
        pct(i) == percentage(common[i].count, total)
        failing == {i \in DOMAIN common : pct(i).raised # "none"}
    IN  IF failing # {}
        THEN Raise(pct(CHOOSE i \in failing : \A j \in failing : i <= j).raised)
        ELSE Ok([i \in DOMAIN common |->
                    [skill |-> common[i].skill,
                     count |-> common[i].count,
                     percentage |-> pct(i).value]])

\* f"{pct:.1f}", line 237: the percentage in tenths, rounded to nearest (a
\* tie goes to the even tenth)
Format1(p) ==
    LET q == (p.num * 10) \div p.den
        r == (p.num * 10) % p.den
    IN  IF 2 * r > p.den THEN q + 1
        ELSE IF 2 * r < p.den THEN q
        ELSE IF q % 2 = 0 THEN q ELSE q + 1

-----------------------------------------------------------------------------
(* How a call that yields a list ends *)

\* the outcome of a call that yields a list: returned, or left by an exception
Finish(outcome) ==
    /\ raised' = outcome.raised
    /\ pc' = IF outcome.raised = "none" THEN "returned" ELSE "raised"
    /\ ranked' = IF outcome.raised = "none" THEN outcome.value ELSE ranked

-----------------------------------------------------------------------------
(* analyze_skills, lines 243-272 *)

\* a job dict: the keys it has, and the value of each
Job(title, description) ==
    [keys |-> {"title", "description"}, title |-> title,
     description |-> description, skills |-> <<>>]

JobWithoutDescription(title) ==
    [keys |-> {"title"}, title |-> title, description |-> None, skills |-> <<>>]

\* d.get(key, default)
dict_get(d, key, default) == IF key \in d.keys THEN d[key] ELSE default

\* d[key] = value
dict_set(d, key, value) == [d EXCEPT !.keys = @ \cup {key}, ![key] = value]

\* variant: line 260 without the condition of line 259
KeepSkills_always(sets, skills) == Append(sets, skills)

\* lines 259-260
KeepSkills(sets, skills) == IF skills # <<>> THEN Append(sets, skills) ELSE sets

\* variant: total_jobs = len(jobs)
CountJobs_all(sets) == Len(jobs)

\* line 267
CountJobs(sets) == Len(sets)

\* variant: line 258 under the condition of line 259, so that a job without
\* skills gets no skills field
StoreSkills_only_if_found(run, i, skills) ==
    [jobs |-> IF skills # <<>>
              THEN [run.jobs EXCEPT ![i] = dict_set(run.jobs[i], "skills", skills)]
              ELSE run.jobs,
     all_skills |-> KeepSkills(run.all_skills, skills),
     raised |-> "none"]

\* lines 258-260 for the i-th job, skills being the list of its set
StoreSkills(run, i, skills) ==
    [jobs |-> [run.jobs EXCEPT ![i] = dict_set(run.jobs[i], "skills", skills)],
     all_skills |-> KeepSkills(run.all_skills, skills),
     raised |-> "none"]

\* line 257 for the i-th job: an exception ends the run
MatchJob(run, i, found) ==
    IF found.raised # "none" THEN [run EXCEPT !.raised = found.raised]
    ELSE StoreSkills(run, i, SetToList(found.value, hashseed))

\* lines 256-260 for the i-th job: run.jobs are the job dicts as mutated so
\* far, run.all_skills the sets kept so far
AnalyzeJob(run, i) ==
    MatchJob(run, i,
             call_extract_skills_regex(dict_get(run.jobs[i], "description", TextEmpty)))

\* the loop of lines 255-260 from the i-th job on
RECURSIVE AnalyzeLoop(_, _)
AnalyzeLoop(run, i) ==
    IF i > Len(run.jobs) \/ run.raised # "none" THEN run
    ELSE AnalyzeLoop(AnalyzeJob(run, i), i + 1)

\* lines 262-272, after the loop
AnalyzeEnd(loop) ==
    /\ jobs' = loop.jobs
    /\ all_skills' = loop.all_skills
    /\ IF loop.raised # "none"
       THEN /\ Finish(Raise(loop.raised))
            /\ UNCHANGED <<skill_counts, total_jobs, top_n>>
       ELSE IF loop.all_skills = <<>>
       THEN \* lines 262-264
            /\ Finish(Ok(<<>>))
            /\ UNCHANGED <<skill_counts, total_jobs, top_n>>
       ELSE \* lines 266-272
            /\ skill_counts' = aggregate_skills(loop.all_skills)
            /\ total_jobs' = CountJobs(loop.all_skills)
            /\ top_n' = DefaultTopN
            /\ Finish(rank_skills(skill_counts', total_jobs', DefaultTopN))

-----------------------------------------------------------------------------
(* Bounds *)

MaxCalls == 3       \* direct calls of extract_skills_regex in one run
MaxSets == 3        \* length of the list handed to aggregate_skills
MaxCount == 3       \* largest count in a table handed to rank_skills
MaxTotal == 3       \* largest total_jobs handed to rank_skills
MaxTopN == 3        \* largest top_n handed to rank_skills
MaxJobs == 3        \* length of the list handed to analyze_skills

\* sequences over S of length at most n
SeqUpTo(S, n) == UNION {[1..k -> S] : k \in 0..n}

NoDuplicates(q) == \A i, j \in DOMAIN q : i # j => q[i] # q[j]

\* skills the sets handed to aggregate_skills and the tables handed to
\* rank_skills are made of
SomeSkills == {"Python", "Java", "SQL"}

\* every set object over SomeSkills, in every iteration order
SetObjects == {q \in SeqUpTo(SomeSkills, Cardinality(SomeSkills)) : NoDuplicates(q)}

\* every Counter over SomeSkills with counts 1..MaxCount, in every dict order
CountTables ==
    {[i \in DOMAIN q |-> [skill |-> q[i], count |-> c[i]]] :
        <<q, c>> \in {qc \in SetObjects \X SeqUpTo(1..MaxCount, Cardinality(SomeSkills)) :
                        Len(qc[1]) = Len(qc[2])}}

\* the job dicts handed to analyze_skills
JobUniverse ==
    {JobWithoutDescription("Intern"),
     Job("Clerk", TextEmpty),
     Job("Driver", None),
     Job("Sales Lead", TextNoSkill),
     Job("Python Developer", TextPythonThrice),
     Job("ML Engineer", TextScenarioA),
     Job("Data Engineer", TextScenarioB),
     Job("Backend Engineer", TextScenarioC),
     Job("Web Developer", TextJsPython)}

-----------------------------------------------------------------------------
(* State after import, before any call *)

\* no reply of the LLM yet
NoReply == [kind |-> "none", items |-> <<>>]

\* normalize has not been called
NormalizerIdle ==
    /\ raw = Str(<<>>)
    /\ canonical = Ok(Str(<<>>))
    /\ normalized = {}

\* no function of groq_helper has been called
GroqIdle ==
    /\ job_descriptions = <<>>
    /\ known_skills = {}
    /\ known_lower = {}
    /\ all_new_skills = {}
    /\ chunk_start = 0
    /\ new_skills = <<>>
    /\ num_keywords = 0
    /\ content = NoReply
    /\ keywords = <<>>

\* main is not running
MainIdle ==
    /\ main_pc = "idle"
    /\ exit_status = -1

\* IndeedScraper.__init__, lines 108-119: no driver yet; no call of search_jobs
\* has begun
ScraperIdle ==
    /\ driver = 0
    /\ browsers = <<>>
    /\ search_pc = "idle"
    /\ page = 0 /\ num_pages = 0 /\ cards = 0
    /\ pending = "none"
    /\ searched = 0

Imported ==
    /\ COMPILED_PATTERNS = CompilePatterns(PREDEFINED_SKILLS)
    /\ pc = "start"
    /\ raised = "none"
    /\ calls = 0
    /\ text = TextEmpty
    /\ found_skills = {}
    /\ returned = [v \in TextUniverse |-> {}]

-----------------------------------------------------------------------------
(* Direct calls of the matcher *)

InitMatch ==
    /\ Imported
    /\ NormalizerIdle /\ GroqIdle /\ MainIdle /\ ScraperIdle
    /\ hashseed = 1
    /\ all_skills = <<>> /\ skill_counts = <<>> /\ total_jobs = 0 /\ top_n = 0
    /\ ranked = <<>> /\ jobs = <<>> /\ jobs_at_call = <<>>

\* found = extract_skills_regex(v)
CallExtract(v) ==
    /\ calls < MaxCalls
    /\ calls' = calls + 1
    /\ text' = v
    /\ LET outcome == call_extract_skills_regex(v)
       IN  /\ raised' = outcome.raised
           /\ found_skills' = IF outcome.raised = "none" THEN outcome.value ELSE {}
           /\ returned' = [returned EXCEPT ![v] = @ \cup {outcome}]
    /\ UNCHANGED <<normalizerVars, groqVars, mainVars, scraperVars>>
    /\ UNCHANGED <<COMPILED_PATTERNS, hashseed, pc, all_skills, skill_counts,
                   total_jobs, top_n, ranked, jobs, jobs_at_call>>

NextMatch == \E v \in TextUniverse : CallExtract(v)

SpecMatch == InitMatch /\ [][NextMatch]_vars

-----------------------------------------------------------------------------
(* aggregate_skills on any list of sets, then lines 266-268 on its result *)

InitAggregate ==
    /\ Imported
    /\ NormalizerIdle /\ GroqIdle /\ MainIdle /\ ScraperIdle
    /\ hashseed = 1
    /\ all_skills \in SeqUpTo(SetObjects, MaxSets)
    /\ skill_counts = <<>> /\ total_jobs = 0 /\ top_n = 0
    /\ ranked = <<>> /\ jobs = <<>> /\ jobs_at_call = <<>>

\* skill_counts = aggregate_skills(all_skills)
CallAggregate ==
    /\ pc = "start"
    /\ pc' = "aggregated"
    /\ skill_counts' = aggregate_skills(all_skills)
    /\ UNCHANGED <<normalizerVars, groqVars, mainVars, scraperVars>>
    /\ UNCHANGED <<COMPILED_PATTERNS, hashseed, raised, calls, text, found_skills,
                   returned, all_skills, total_jobs, top_n, ranked, jobs,
                   jobs_at_call>>

\* total_jobs = len(all_skills); ranked = rank_skills(skill_counts, total_jobs, n)
CallRankAggregated(n) ==
    /\ pc = "aggregated"
    /\ total_jobs' = CountJobs(all_skills)
    /\ top_n' = n
    /\ Finish(rank_skills(skill_counts, CountJobs(all_skills), n))
    /\ UNCHANGED <<normalizerVars, groqVars, mainVars, scraperVars>>
    /\ UNCHANGED <<COMPILED_PATTERNS, hashseed, calls, text, found_skills,
                   returned, all_skills, skill_counts, jobs, jobs_at_call>>

NextAggregate ==
    \/ CallAggregate
    \/ \E n \in 0..MaxTopN : CallRankAggregated(n)

SpecAggregate == InitAggregate /\ [][NextAggregate]_vars

-----------------------------------------------------------------------------
(* rank_skills on any count table, any total and any top_n *)

InitRank ==
    /\ Imported
    /\ NormalizerIdle /\ GroqIdle /\ MainIdle /\ ScraperIdle
    /\ hashseed = 1
    /\ skill_counts \in CountTables
    /\ total_jobs \in 0..MaxTotal
    /\ top_n \in 0..MaxTopN
    /\ all_skills = <<>> /\ ranked = <<>> /\ jobs = <<>> /\ jobs_at_call = <<>>

\* ranked = rank_skills(skill_counts, total_jobs, top_n)
CallRank ==
    /\ pc = "start"
    /\ Finish(rank_skills(skill_counts, total_jobs, top_n))
    /\ UNCHANGED <<normalizerVars, groqVars, mainVars, scraperVars>>
    /\ UNCHANGED <<COMPILED_PATTERNS, hashseed, calls, text, found_skills,
                   returned, all_skills, skill_counts, total_jobs, top_n, jobs,
                   jobs_at_call>>

NextRank == CallRank

SpecRank == InitRank /\ [][NextRank]_vars

-----------------------------------------------------------------------------
(* analyze_skills on any list of jobs *)

InitAnalyze ==
    /\ Imported
    /\ NormalizerIdle /\ GroqIdle /\ MainIdle /\ ScraperIdle
    /\ hashseed \in 1..MaxHashSeed
    /\ jobs \in SeqUpTo(JobUniverse, MaxJobs)
    /\ jobs_at_call = jobs
    /\ all_skills = <<>> /\ skill_counts = <<>> /\ total_jobs = 0 /\ top_n = 0
    /\ ranked = <<>>

\* ranked = analyze_skills(jobs)
analyze_skills ==
    /\ pc = "start"
    /\ AnalyzeEnd(AnalyzeLoop([jobs |-> jobs, all_skills |-> <<>>, raised |-> "none"], 1))
    /\ UNCHANGED <<normalizerVars, groqVars, mainVars, scraperVars>>
    /\ UNCHANGED <<COMPILED_PATTERNS, hashseed, calls, text, found_skills,
                   returned, jobs_at_call>>

NextAnalyze == analyze_skills

SpecAnalyze == InitAnalyze /\ [][NextAnalyze]_vars

-----------------------------------------------------------------------------
(* analyze_skills on lists of jobs that name many skills *)

ManyJobUniverse ==
    {Job("Platform Engineer", TextManyA),
     Job("Data Platform Engineer", TextManyB),
     Job("Python Developer", TextPythonThrice),
     Job("Sales Lead", TextNoSkill)}

InitAnalyzeMany ==
    /\ Imported
    /\ NormalizerIdle /\ GroqIdle /\ MainIdle /\ ScraperIdle
    /\ hashseed \in 1..MaxHashSeed
    /\ jobs \in SeqUpTo(ManyJobUniverse, MaxJobs)
    /\ jobs_at_call = jobs
    /\ all_skills = <<>> /\ skill_counts = <<>> /\ total_jobs = 0 /\ top_n = 0
    /\ ranked = <<>>

SpecAnalyzeMany == InitAnalyzeMany /\ [][NextAnalyze]_vars

-----------------------------------------------------------------------------
(* The Name Normalizer (section 4.3 of the specification) *)

\* "pytorch", "PyTorch", "tensorflow", "TensorFlow"
AliasPytorch == <<"p", "y", "t", "o", "r", "c", "h">>
NamePyTorch == <<"P", "y", "T", "o", "r", "c", "h">>
AliasTensorflow == <<"t", "e", "n", "s", "o", "r", "f", "l", "o", "w">>
NameTensorFlow == <<"T", "e", "n", "s", "o", "r", "F", "l", "o", "w">>

\* the synonym table: lowercase alias -> canonical display name
SynonymTable ==
    [alias \in {AliasPytorch, AliasTensorflow} |->
        IF alias = AliasPytorch THEN NamePyTorch ELSE NameTensorFlow]

\* variant: the key is the lowercased input, not trimmed, and an input that
\* is not found is returned as it came
normalize_untrimmed(rawSkillName) ==
    IF ToLower(rawSkillName.s) \in DOMAIN SynonymTable
    THEN Ok(Str(SynonymTable[ToLower(rawSkillName.s)]))
    ELSE Ok(rawSkillName)

\* normalize(rawSkillName): the key is the trimmed, lowercased input
normalize(rawSkillName) ==
    IF ToLower(Strip(rawSkillName.s)) \in DOMAIN SynonymTable
    THEN Ok(Str(SynonymTable[ToLower(Strip(rawSkillName.s))]))
    ELSE Ok(Str(Strip(rawSkillName.s)))

\* "SomeNewTool", "  SomeNewTool ", " pytorch", "PYTORCH ", "Py Torch"
RawSomeNewTool == <<"S", "o", "m", "e", "N", "e", "w", "T", "o", "o", "l">>
RawSomeNewToolPadded == <<" ", " ">> \o RawSomeNewTool \o <<" ">>
RawPytorchPadded == <<" ">> \o AliasPytorch
RawPytorchUpper == <<"P", "Y", "T", "O", "R", "C", "H", " ">>
RawPyTorchTwoWords == <<"P", "y", " ", "T", "o", "r", "c", "h">>

\* the inputs normalize is called with: the caller leaves blank ones out
RawNames ==
    {Str(AliasPytorch), Str(NamePyTorch), Str(RawPytorchPadded),
     Str(RawPytorchUpper), Str(RawPyTorchTwoWords), Str(AliasTensorflow),
     Str(NameTensorFlow), Str(RawSomeNewTool), Str(RawSomeNewToolPadded)}

MaxNormalized == 3  \* number of different calls of normalize in one run

\* the engine after import, never called
EngineIdle ==
    /\ Imported
    /\ hashseed = 1
    /\ all_skills = <<>> /\ skill_counts = <<>> /\ total_jobs = 0 /\ top_n = 0
    /\ ranked = <<>> /\ jobs = <<>> /\ jobs_at_call = <<>>

InitNormalize == EngineIdle /\ NormalizerIdle /\ GroqIdle /\ MainIdle /\ ScraperIdle

\* canonical = normalize(v)
CallNormalize(v) ==
    /\ Cardinality(normalized) < MaxNormalized
    /\ raw' = v
    /\ canonical' = normalize(v)
    /\ normalized' = normalized \cup {<<v, normalize(v)>>}
    /\ UNCHANGED <<engineVars, groqVars, mainVars, scraperVars>>

NextNormalize == \E v \in RawNames : CallNormalize(v)

SpecNormalize == InitNormalize /\ [][NextNormalize]_vars

-----------------------------------------------------------------------------
(* discover_new_skills, src/groq_helper.py lines 74-141 *)

\* an element of a JSON array that is no string
JsonNumber == [type |-> "int", s |-> <<>>]

\* what one request to the LLM comes to: an exception of the client or of
\* json.loads ("error"), a reply in which the search of line 129 finds no
\* [...] ("no_array"), or a reply whose [...] parses to the items
ReplyError == [kind |-> "error", items |-> <<>>]
ReplyNoArray == [kind |-> "no_array", items |-> <<>>]
ReplyArray(items) == [kind |-> "array", items |-> items]

\* line 96
ChunkSize == 15

\* line 93
LowerOfKnown(known) == {Str(ToLower(k.s)) : k \in known}

\* the condition of line 134, seen being known_lower
IsNewSkill(s, seen) ==
    /\ s.type = "str"
    /\ Strip(s.s) # <<>>
    /\ Str(ToLower(s.s)) \notin seen
    /\ Len(s.s) > 1

\* lines 134-136 for one element: acc.new is all_new_skills, acc.lower is
\* known_lower
FilterItem(acc, s) ==
    IF IsNewSkill(s, acc.lower)
    THEN [new |-> acc.new \cup {Str(Strip(s.s))},
          lower |-> acc.lower \cup {Str(ToLower(s.s))}]
    ELSE acc

\* the loop of lines 133-136 from the i-th element on
RECURSIVE FilterLoop(_, _, _)
FilterLoop(acc, items, i) ==
    IF i > Len(items) THEN acc
    ELSE FilterLoop(FilterItem(acc, items[i]), items, i + 1)

\* lines 119-139 for one chunk, given what its request came to
AfterChunk(acc, reply) ==
    IF reply.kind = "array" THEN FilterLoop(acc, reply.items, 1) ELSE acc

\* lines 88-97: the call begins
DiscoverBegin ==
    /\ pc = "start"
    /\ IF job_descriptions = <<>>
       THEN /\ pc' = "returned"
            /\ new_skills' = <<>>
            /\ UNCHANGED <<all_new_skills, known_lower, chunk_start>>
       ELSE /\ pc' = "chunks"
            /\ all_new_skills' = {}
            /\ known_lower' = LowerOfKnown(known_skills)
            /\ chunk_start' = 0
            /\ UNCHANGED new_skills
    /\ UNCHANGED <<COMPILED_PATTERNS, hashseed, raised, calls, text, found_skills,
                   returned, all_skills, skill_counts, total_jobs, top_n, ranked,
                   jobs, jobs_at_call>>
    /\ UNCHANGED <<job_descriptions, known_skills, num_keywords, content, keywords>>
    /\ UNCHANGED <<normalizerVars, mainVars, scraperVars>>

\* lines 99-139: one turn of the loop, for the chunk that begins at chunk_start
DiscoverChunk(reply) ==
    /\ pc = "chunks"
    /\ chunk_start < Len(job_descriptions)
    /\ all_new_skills' =
          AfterChunk([new |-> all_new_skills, lower |-> known_lower], reply).new
    /\ known_lower' =
          AfterChunk([new |-> all_new_skills, lower |-> known_lower], reply).lower
    /\ chunk_start' = chunk_start + ChunkSize
    /\ UNCHANGED <<engineVars, normalizerVars, mainVars, scraperVars>>
    /\ UNCHANGED <<job_descriptions, known_skills, new_skills, num_keywords,
                   content, keywords>>

\* line 141, after the last chunk: list(all_new_skills), in the order the set
\* iterates in
DiscoverReturn(order) ==
    /\ pc = "chunks"
    /\ chunk_start >= Len(job_descriptions)
    /\ Len(order) = Cardinality(all_new_skills)
    /\ Range(order) = all_new_skills
    /\ new_skills' = order
    /\ pc' = "returned"
    /\ UNCHANGED <<COMPILED_PATTERNS, hashseed, raised, calls, text, found_skills,
                   returned, all_skills, skill_counts, total_jobs, top_n, ranked,
                   jobs, jobs_at_call>>
    /\ UNCHANGED <<job_descriptions, known_skills, known_lower, all_new_skills,
                   chunk_start, num_keywords, content, keywords>>
    /\ UNCHANGED <<normalizerVars, mainVars, scraperVars>>

MaxDescriptions == 16   \* most descriptions handed to discover_new_skills
MaxReplyItems == 2      \* most elements of the array in one reply of the LLM

\* "Python" and "Modal"
CandPython == Str(<<"P", "y", "t", "h", "o", "n">>)
CandModal == Str(<<"M", "o", "d", "a", "l">>)

\* what an array in a reply can hold: "Python", " Python", "python", "Modal",
\* "Modal ", "modal", " ", "R" and a number
Candidates ==
    {CandPython,
     Str(<<" ", "P", "y", "t", "h", "o", "n">>),
     Str(<<"p", "y", "t", "h", "o", "n">>),
     CandModal,
     Str(<<"M", "o", "d", "a", "l", " ">>),
     Str(<<"m", "o", "d", "a", "l">>),
     Str(<<" ">>),
     Str(<<"R">>),
     JsonNumber}

\* what a request to the LLM can come to
Replies ==
    {ReplyError, ReplyNoArray}
        \cup {ReplyArray(items) : items \in SeqUpTo(Candidates, MaxReplyItems)}

\* numbers of descriptions: none, one, a full chunk and more than a chunk
DescriptionCounts == {0, 1} \cup (ChunkSize..MaxDescriptions)

\* a description: what it says goes into the prompt only
SomeDescription == TextScenarioA

\* the sets of known skills
KnownSets == {{}, {CandPython}}

InitDiscover ==
    /\ EngineIdle /\ NormalizerIdle /\ MainIdle /\ ScraperIdle
    /\ job_descriptions \in {[k \in 1..n |-> SomeDescription] : n \in DescriptionCounts}
    /\ known_skills \in KnownSets
    /\ known_lower = {}
    /\ all_new_skills = {}
    /\ chunk_start = 0
    /\ new_skills = <<>>
    /\ num_keywords = 0
    /\ content = NoReply
    /\ keywords = <<>>

NextDiscover ==
    \/ DiscoverBegin
    \/ \E reply \in Replies : DiscoverChunk(reply)
    \/ \E order \in SeqUpTo(all_new_skills, Cardinality(all_new_skills)) :
          DiscoverReturn(order)

SpecDiscover == InitDiscover /\ [][NextDiscover]_vars

-----------------------------------------------------------------------------
(* generate_search_keywords, src/groq_helper.py lines 24-71 *)

\* a reply in which the search of line 51 finds a [...] that json.loads
\* rejects (JSONDecodeError)
ReplyBadJson == [kind |-> "bad_json", items |-> <<>>]

\* list[:n] for n >= 0
Prefix(list, n) == SubSeq(list, 1, IF n < Len(list) THEN n ELSE Len(list))

\* lines 60-70
FallbackKeywords ==
    <<"AI Engineer", "AI Developer", "AI Research Scientist",
      "AI Solutions Architect", "AI Product Manager", "Senior AI Engineer",
      "AI/ML Engineer", "AI Specialist", "AI Consultant", "AI Team Lead">>

\* the names bound at module level in groq_helper.py (lines 4-8, 11, 13, 24,
\* 74), besides the builtins
GroqGlobals ==
    {"os", "Groq", "List", "Set", "json", "re", "client", "get_client",
     "generate_search_keywords", "discover_new_skills"}

\* evaluation of a global name inside a function of groq_helper.py
LookupGlobal(name) ==
    IF name \in GroqGlobals THEN Ok(name) ELSE Raise("NameError")

\* the function, given what its request to the LLM comes to: an exception of
\* the client leaves the function, a JSONDecodeError is caught (line 55)
generate_search_keywords(n, reply) ==
    IF reply.kind = "error" THEN Raise("APIError")
    ELSE IF reply.kind = "array" THEN Ok(Prefix(reply.items, n))
    ELSE IF LookupGlobal("console").raised # "none"
    THEN Raise(LookupGlobal("console").raised)    \* line 59
    ELSE Ok(Prefix(FallbackKeywords, n))

-----------------------------------------------------------------------------
(* main, src/main.py lines 27-167 *)

MaxKeywords == 2    \* largest --keywords

\* line 64
DefaultKeywords == <<"AI Engineer", "AI Developer", "AI Research Scientist">>

\* what the request of generate_search_keywords can come to
KeywordReplies ==
    {ReplyError, ReplyNoArray, ReplyBadJson}
        \cup {ReplyArray(items) :
                items \in SeqUpTo({"Machine Learning Engineer", "Data Scientist"},
                                  MaxReplyItems)}

\* jobs as scrape_with_details delivers them: the description is the snippet,
\* or title and company if there is none (indeed_scraper.py lines 304-307)
ScrapedJobs ==
    {Job("Sales Lead", TextNoSkill),
     Job("Python Developer", TextPythonThrice),
     Job("ML Engineer", TextScenarioA)}

InitMain ==
    /\ Imported /\ NormalizerIdle
    /\ hashseed \in 1..MaxHashSeed
    /\ all_skills = <<>> /\ skill_counts = <<>> /\ total_jobs = 0 /\ top_n = 0
    /\ ranked = <<>> /\ jobs = <<>> /\ jobs_at_call = <<>>
    /\ job_descriptions = <<>> /\ known_skills = {} /\ known_lower = {}
    /\ all_new_skills = {} /\ chunk_start = 0 /\ new_skills = <<>>
    /\ num_keywords \in 0..MaxKeywords
    /\ content = NoReply
    /\ keywords = <<>>
    /\ main_pc = "start"
    /\ exit_status = -1
    /\ ScraperIdle

\* sys.exit(status)
Exit(status) ==
    /\ exit_status' = status
    /\ main_pc' = "exited"

\* lines 42-46
MainCheckKey(has_key) ==
    /\ main_pc = "start"
    /\ IF has_key THEN main_pc' = "keywords" /\ UNCHANGED exit_status ELSE Exit(1)
    /\ UNCHANGED <<engineVars, normalizerVars, groqVars, scraperVars>>

\* lines 56-64: step 1, any exception gives the default keywords
MainKeywords(reply) ==
    /\ main_pc = "keywords"
    /\ content' = reply
    /\ raised' = generate_search_keywords(num_keywords, reply).raised
    /\ keywords' = IF generate_search_keywords(num_keywords, reply).raised = "none"
                   THEN generate_search_keywords(num_keywords, reply).value
                   ELSE DefaultKeywords
    /\ main_pc' = "scrape"
    /\ UNCHANGED <<COMPILED_PATTERNS, hashseed, pc, calls, text, found_skills,
                   returned, all_skills, skill_counts, total_jobs, top_n, ranked,
                   jobs, jobs_at_call>>
    /\ UNCHANGED <<job_descriptions, known_skills, known_lower, all_new_skills,
                   chunk_start, new_skills, num_keywords>>
    /\ UNCHANGED <<normalizerVars, exit_status, scraperVars>>

\* lines 66-86: step 2, all_jobs being what the searches for the keywords
\* found, nothing if there is no keyword
MainScrape(all_jobs) ==
    /\ main_pc = "scrape"
    /\ keywords = <<>> => all_jobs = <<>>
    /\ jobs' = all_jobs
    /\ jobs_at_call' = all_jobs
    /\ IF all_jobs = <<>> THEN Exit(1)
       ELSE main_pc' = "analyze" /\ UNCHANGED exit_status
    /\ UNCHANGED <<COMPILED_PATTERNS, hashseed, pc, raised, calls, text,
                   found_skills, returned, all_skills, skill_counts, total_jobs,
                   top_n, ranked>>
    /\ UNCHANGED <<normalizerVars, groqVars, scraperVars>>

\* lines 92-99: step 3; an exception that leaves analyze_skills ends the
\* process with status 1, as does an empty ranked list
MainAnalyze ==
    /\ main_pc = "analyze"
    /\ AnalyzeEnd(AnalyzeLoop([jobs |-> jobs, all_skills |-> <<>>, raised |-> "none"], 1))
    /\ IF raised' # "none" \/ ranked' = <<>> THEN Exit(1)
       ELSE main_pc' = "report" /\ UNCHANGED exit_status
    /\ UNCHANGED <<COMPILED_PATTERNS, hashseed, calls, text, found_skills,
                   returned, jobs_at_call>>
    /\ UNCHANGED <<normalizerVars, groqVars, scraperVars>>

\* lines 101-167: steps 4 and 5; discovered is what step 4 leaves in
\* new_skills, [] without --discover-new or after an exception
MainReport(discovered) ==
    /\ main_pc = "report"
    /\ new_skills' = discovered
    /\ Exit(0)
    /\ UNCHANGED <<engineVars, normalizerVars, scraperVars>>
    /\ UNCHANGED <<job_descriptions, known_skills, known_lower, all_new_skills,
                   chunk_start, num_keywords, content, keywords>>

NextMain ==
    \/ \E has_key \in BOOLEAN : MainCheckKey(has_key)
    \/ \E reply \in KeywordReplies : MainKeywords(reply)
    \/ \E all_jobs \in SeqUpTo(ScrapedJobs, MaxJobs) : MainScrape(all_jobs)
    \/ MainAnalyze
    \/ \E discovered \in {<<>>, <<CandModal>>} : MainReport(discovered)

SpecMain == InitMain /\ [][NextMain]_vars

-----------------------------------------------------------------------------
(* IndeedScraper, src/indeed_scraper.py: the browser driver of search_jobs *)

MaxSearches == 3    \* calls of search_jobs on one scraper
MaxPages == 2       \* largest num_pages
MaxCards == 1       \* job cards with a title on one page
MaxDetails == 1     \* browsers created beyond one for each search

\* a browser driver object: the method that stored it in self.driver, "nobody"
\* if none did, and the calls of its quit()
Browser(by) == [by |-> by, quits |-> 0]

\* _create_driver, lines 121-176, called by the method by.  It returns a new
\* browser ("driver"), or raises before there is one (lines 162 and 166,
\* "no_browser"), or raises at line 169 when webdriver.Chrome has returned
\* the browser, which nothing refers to then ("cdp_failed")
CreateOutcomes == {"driver", "no_browser", "cdp_failed"}

create_driver(by, outcome) ==
    CASE outcome = "driver" -> Append(browsers, Browser(by))
      [] outcome = "no_browser" -> browsers
      [] outcome = "cdp_failed" -> Append(browsers, Browser("nobody"))

ExceptionOf(outcome) ==
    CASE outcome = "driver" -> "none"
      [] outcome = "no_browser" -> "FileNotFoundError"
      [] outcome = "cdp_failed" -> "WebDriverException"

\* driver.quit()
quit(bs, d) == [bs EXCEPT ![d].quits = @ + 1]

\* lines 186-187: the driver is created before the try statement, so an
\* exception of _create_driver leaves the call at once and self.driver keeps
\* the value it had
SearchBegin(n, outcome) ==
    /\ search_pc = "idle"
    /\ searched < MaxSearches
    /\ browsers' = create_driver("search_jobs", outcome)
    /\ pending' = ExceptionOf(outcome)
    /\ IF outcome = "driver"
       THEN /\ driver' = Len(browsers')
            /\ num_pages' = n
            /\ page' = 0
            /\ cards' = 0
            /\ search_pc' = "loop"
            /\ UNCHANGED searched
       ELSE /\ searched' = searched + 1
            /\ UNCHANGED <<driver, num_pages, page, cards, search_pc>>
    /\ UNCHANGED <<engineVars, normalizerVars, groqVars, mainVars>>

\* what one pass of the loop body, lines 190-223, can come to: the page gives
\* k cards with a title, the wait times out (line 207), an Exception is
\* raised by the driver or the parser, or an exception that is no Exception
\* is (KeyboardInterrupt)
PageOutcomes ==
    {[kind |-> "cards", k |-> k] : k \in 0..MaxCards}
    \cup {[kind |-> kind, k |-> 0] : kind \in {"timeout", "exception", "interrupt"}}

\* one pass of the loop of lines 190-223
SearchPage(outcome) ==
    /\ search_pc = "loop"
    /\ page < num_pages
    /\ page' = page + 1
    /\ cards' = cards + outcome.k
    /\ search_pc' = IF outcome.kind \in {"cards", "timeout"} THEN "loop" ELSE "finally"
    /\ pending' = IF outcome.kind = "interrupt" THEN "KeyboardInterrupt" ELSE "none"
    /\ UNCHANGED <<driver, browsers, num_pages, searched>>
    /\ UNCHANGED <<engineVars, normalizerVars, groqVars, mainVars>>

\* variant: the clean-up as the last statements of the try block, which an
\* exception in the loop skips
SearchFinally_in_try ==
    /\ search_pc = "finally" \/ (search_pc = "loop" /\ page = num_pages)
    /\ IF driver # 0 /\ search_pc = "loop"
       THEN browsers' = quit(browsers, driver) /\ driver' = 0
       ELSE UNCHANGED <<driver, browsers>>
    /\ search_pc' = "idle"
    /\ searched' = searched + 1
    /\ UNCHANGED <<page, num_pages, cards, pending>>
    /\ UNCHANGED <<engineVars, normalizerVars, groqVars, mainVars>>

\* lines 225-233, reached when the loop is over and when an exception left
\* it: the except clause only prints; the finally clause quits the driver
\* and clears the field; then the call returns jobs, or passes the pending
\* exception on
SearchFinally ==
    /\ search_pc = "finally" \/ (search_pc = "loop" /\ page = num_pages)
    /\ IF driver # 0
       THEN browsers' = quit(browsers, driver) /\ driver' = 0
       ELSE UNCHANGED <<driver, browsers>>
    /\ search_pc' = "idle"
    /\ searched' = searched + 1
    /\ UNCHANGED <<page, num_pages, cards, pending>>
    /\ UNCHANGED <<engineVars, normalizerVars, groqVars, mainVars>>

\* extract_job_details, lines 269-294, called when the field is None: it
\* creates a driver (lines 271-272, outside its try statement) and never
\* quits one.  Called when the field holds a driver, it uses that driver and
\* changes nothing here
extract_job_details(outcome) ==
    /\ search_pc = "idle"
    /\ driver = 0
    /\ Len(browsers) < MaxSearches + MaxDetails
    /\ browsers' = create_driver("extract_job_details", outcome)
    /\ driver' = IF outcome = "driver" THEN Len(browsers') ELSE driver
    /\ UNCHANGED <<search_pc, page, num_pages, cards, pending, searched>>
    /\ UNCHANGED <<engineVars, normalizerVars, groqVars, mainVars>>

InitScrape == EngineIdle /\ NormalizerIdle /\ GroqIdle /\ MainIdle /\ ScraperIdle

NextScrape ==
    \/ \E n \in 0..MaxPages, outcome \in CreateOutcomes : SearchBegin(n, outcome)
    \/ \E outcome \in PageOutcomes : SearchPage(outcome)
    \/ SearchFinally
    \/ \E outcome \in CreateOutcomes : extract_job_details(outcome)

SpecScrape == InitScrape /\ [][NextScrape]_vars

-----------------------------------------------------------------------------
(* Properties of aggregate_skills *)

\* the number of sets of the list that contain the skill
SetsContaining(sets, name) ==
    Cardinality({i \in DOMAIN sets : name \in Range(sets[i])})

\* the entries of a count table or of a ranked list that are about the skill
EntriesOf(table, name) == {i \in DOMAIN table : table[i].skill = name}

\* C1: after aggregate_skills has run on a list of sets, empty sets included,
\* the table holds, for each skill, exactly one entry if some set contains
\* the skill, whose count is the number of sets that contain it, and no entry
\* if no set contains it; the table holds nothing else
C1_CountIsNumberOfSets ==
    pc # "start" =>
        /\ \A i \in DOMAIN skill_counts : skill_counts[i].skill \in SomeSkills
        /\ \A name \in SomeSkills :
              IF SetsContaining(all_skills, name) = 0
              THEN EntriesOf(skill_counts, name) = {}
              ELSE /\ Cardinality(EntriesOf(skill_counts, name)) = 1
                   /\ \A i \in EntriesOf(skill_counts, name) :
                         skill_counts[i].count = SetsContaining(all_skills, name)

\* an empty set, a skill two sets contain, a skill one set contains and a
\* skill no set contains, all in one aggregated list
C1_Witness ==
    /\ pc = "aggregated"
    /\ \E i \in DOMAIN all_skills : all_skills[i] = <<>>
    /\ \E i \in DOMAIN skill_counts : skill_counts[i].count = 2
    /\ \E i \in DOMAIN skill_counts : skill_counts[i].count = 1
    /\ \E name \in SomeSkills : EntriesOf(skill_counts, name) = {}

-----------------------------------------------------------------------------
(* Properties of analyze_skills that rest on what a description mentions *)

\* a description mentions a skill if some rule of the skill's lexicon entry is
\* found somewhere in the description, letter case ignored; every rule of
\* every entry is tried
Mentions(v, k) ==
    /\ v.type = "str"
    /\ \E r \in DOMAIN PREDEFINED_SKILLS[k].patterns :
          Search(PREDEFINED_SKILLS[k].patterns[r], ToLower(v.s))

\* the skills each text mentions
Mentioned ==
    [v \in TextUniverse \cup ManyTexts |->
        {PREDEFINED_SKILLS[k].skill :
            k \in {j \in DOMAIN PREDEFINED_SKILLS : Mentions(v, j)}}]

\* the description of a job as given, the empty string if it has none
DescriptionOf(job) ==
    IF "description" \in job.keys THEN job.description ELSE TextEmpty

\* the jobs of the list whose description mentions the skill
JobsMentioning(js, name) ==
    {i \in DOMAIN js : name \in Mentioned[DescriptionOf(js[i])]}

\* the jobs of the list whose description mentions some skill
JobsWithSkills(js) ==
    {i \in DOMAIN js : Mentioned[DescriptionOf(js[i])] # {}}

\* C2: every entry analyze_skills returns has a count equal to the number of
\* jobs of the input list whose description mentions the entry's skill, however
\* often one description mentions it
C2_CountIsNumberOfJobs ==
    pc = "returned" =>
        \A i \in DOMAIN ranked :
            ranked[i].count = Cardinality(JobsMentioning(jobs_at_call, ranked[i].skill))

\* "Python Python Python" is the only description that mentions Python, and
\* the entry of Python has count 1
C2_Witness ==
    /\ pc = "returned"
    /\ \E i \in DOMAIN jobs_at_call : DescriptionOf(jobs_at_call[i]) = TextPythonThrice
    /\ \E i \in DOMAIN ranked : ranked[i].skill = "Python" /\ ranked[i].count = 1

-----------------------------------------------------------------------------
(* Properties of rank_skills *)

\* comparison of a fraction with an integer
AtLeast(p, n) == p.num >= n * p.den
AtMost(p, n) == p.num <= n * p.den

\* C3 as stated: whatever the table, the total and top_n, every entry
\* rank_skills returns has a percentage between 0 and 100, which is 0 when the
\* total is 0, and the call raises nothing
C3_PercentageWithin0And100 ==
    pc # "start" =>
        /\ raised = "none"
        /\ \A i \in DOMAIN ranked :
              /\ AtLeast(ranked[i].percentage, 0)
              /\ AtMost(ranked[i].percentage, 100)
              /\ total_jobs = 0 => ranked[i].percentage.num = 0

\* C3 as amended: whatever the table, the total and top_n, the call raises
\* nothing and every entry it returns has a percentage that is at least 0, is
\* 0 when the total is 0, and is at most 100 if the entry's count is at most
\* the total
C3_PercentageWithinWhenCountAtMostTotal ==
    pc # "start" =>
        /\ raised = "none"
        /\ \A i \in DOMAIN ranked :
              /\ AtLeast(ranked[i].percentage, 0)
              /\ ranked[i].count <= total_jobs => AtMost(ranked[i].percentage, 100)
              /\ total_jobs = 0 => ranked[i].percentage.num = 0

\* a call with total 0 that returned entries
C3_Witness ==
    /\ pc = "returned"
    /\ total_jobs = 0
    /\ ranked # <<>>
    /\ \A i \in DOMAIN ranked : ranked[i].percentage.num = 0

\* C5: whatever the table, the total and top_n, the counts of the list
\* rank_skills returns never increase from an entry to the next
C5_CountsNonIncreasing ==
    pc = "returned" =>
        \A i \in DOMAIN ranked :
            i < Len(ranked) => ranked[i].count >= ranked[i + 1].count

\* a table whose first two counts increase, ranked with room for both
C5_Witness ==
    /\ pc = "returned"
    /\ Len(skill_counts) >= 2
    /\ skill_counts[1].count < skill_counts[2].count
    /\ Len(ranked) >= 2
    /\ ranked[1].count > ranked[Len(ranked)].count

\* the smaller of two numbers
Min(a, b) == IF a < b THEN a ELSE b

\* C6: whatever the table, the total and top_n >= 0, the list rank_skills
\* returns has min(top_n, number of skills of the table) entries, each an
\* entry of the table with its count, no skill twice, and no skill of the
\* table that is left out has a greater count than a skill that is included
C6_FirstTopNOfDescendingOrder ==
    pc = "returned" =>
        /\ Len(ranked) = Min(top_n, Len(skill_counts))
        /\ \A i, j \in DOMAIN ranked : i # j => ranked[i].skill # ranked[j].skill
        /\ \A i \in DOMAIN ranked : \E k \in DOMAIN skill_counts :
              /\ skill_counts[k].skill = ranked[i].skill
              /\ skill_counts[k].count = ranked[i].count
        /\ \A k \in DOMAIN skill_counts :
              EntriesOf(ranked, skill_counts[k].skill) = {} =>
                  \A i \in DOMAIN ranked : skill_counts[k].count <= ranked[i].count

\* a table truncated by top_n: the skill left out stands first in the table
\* and has the smallest count
C6_Witness ==
    /\ pc = "returned"
    /\ top_n > 0
    /\ top_n < Len(skill_counts)
    /\ EntriesOf(ranked, skill_counts[1].skill) = {}
    /\ \A i \in DOMAIN ranked : skill_counts[1].count < ranked[i].count

-----------------------------------------------------------------------------
(* Properties of aggregate_skills followed by rank_skills *)

\* the place of a skill's entry in the count table: the entries stand in the
\* order in which aggregation inserted them
InsertedAt(name) == CHOOSE k \in DOMAIN skill_counts : skill_counts[k].skill = name

\* the elements of the sets of the list, one set after the other
RECURSIVE Flatten(_, _)
Flatten(sets, i) ==
    IF i > Len(sets) THEN <<>> ELSE sets[i] \o Flatten(sets, i + 1)

\* where the traversal of the sets first meets the skill
FirstMetAt(name) ==
    CHOOSE k \in DOMAIN Flatten(all_skills, 1) :
        /\ Flatten(all_skills, 1)[k] = name
        /\ \A j \in 1..(k - 1) : Flatten(all_skills, 1)[j] # name

\* C7: in the list ranked from an aggregated table, of two entries with the
\* same count the one aggregation met first stands first, and a skill left
\* out by top_n with the count of an included one was met after it
C7_TiesInInsertionOrder ==
    pc = "returned" =>
        /\ \A i, j \in DOMAIN ranked :
              (i < j /\ ranked[i].count = ranked[j].count) =>
                  /\ InsertedAt(ranked[i].skill) < InsertedAt(ranked[j].skill)
                  /\ FirstMetAt(ranked[i].skill) < FirstMetAt(ranked[j].skill)
        /\ \A k \in DOMAIN skill_counts : \A i \in DOMAIN ranked :
              (/\ EntriesOf(ranked, skill_counts[k].skill) = {}
               /\ skill_counts[k].count = ranked[i].count) =>
                  /\ InsertedAt(ranked[i].skill) < k
                  /\ FirstMetAt(ranked[i].skill) < FirstMetAt(skill_counts[k].skill)

\* three skills of one count, met in the order SQL, Python, Java, ranked
\* with top_n = 2: SQL then Python, Java left out
C7_Witness ==
    /\ pc = "returned"
    /\ top_n = 2
    /\ Len(skill_counts) = 3
    /\ \A k \in DOMAIN skill_counts : skill_counts[k].count = 2
    /\ Len(ranked) = 2
    /\ ranked[1].skill = "SQL"
    /\ ranked[2].skill = "Python"

-----------------------------------------------------------------------------
(* Properties of analyze_skills: denominator, empty outcomes, empty texts *)

\* the descriptions of the end-to-end scenario, in its order
ScenarioDescriptions == <<TextScenarioA, TextScenarioB, TextScenarioC>>

\* what the scenario yields: skill, count, percentage shown with one decimal
\* (in tenths)
ScenarioEntries ==
    {<<"Python", 2, 667>>, <<"TensorFlow", 2, 667>>, <<"Docker", 2, 667>>,
     <<"SQL", 2, 667>>, <<"AWS", 1, 333>>, <<"PyTorch", 1, 333>>,
     <<"GCP", 1, 333>>, <<"Kubernetes", 1, 333>>, <<"Java", 1, 333>>,
     <<"Azure", 1, 333>>, <<"MongoDB", 1, 333>>}

IsScenario(js) ==
    /\ Len(js) = Len(ScenarioDescriptions)
    /\ \A i \in DOMAIN js : DescriptionOf(js[i]) = ScenarioDescriptions[i]

\* C4: when analyze_skills returns entries, total_jobs is the number of jobs
\* of the input list whose description mentions some skill, and the
\* percentage of every entry is 100 * count / total_jobs; on the three jobs
\* of the scenario total_jobs is 3 and the entries are the eleven of the
\* scenario, 66.7 for count 2 and 33.3 for count 1
C4_DenominatorIsJobsWithSkills ==
    (pc = "returned" /\ ranked # <<>>) =>
        /\ total_jobs = Cardinality(JobsWithSkills(jobs_at_call))
        /\ \A i \in DOMAIN ranked :
              ranked[i].percentage.num * total_jobs =
                  100 * ranked[i].count * ranked[i].percentage.den
        /\ IsScenario(jobs_at_call) =>
              /\ total_jobs = 3
              /\ {<<ranked[i].skill, ranked[i].count, Format1(ranked[i].percentage)>> :
                      i \in DOMAIN ranked} = ScenarioEntries
              /\ Len(ranked) = Cardinality(ScenarioEntries)

\* the scenario has been analysed
C4_Witness ==
    /\ pc = "returned"
    /\ IsScenario(jobs_at_call)
    /\ total_jobs = 3
    /\ Len(ranked) = 11

\* C8: analyze_skills on a list none of whose descriptions mentions a skill,
\* the empty list included, returns the empty list and raises nothing
C8_NoMatchGivesEmptyList ==
    (pc # "start" /\ JobsWithSkills(jobs_at_call) = {}) =>
        /\ pc = "returned"
        /\ raised = "none"
        /\ ranked = <<>>

\* a list of jobs, one with a description that mentions no skill, one with
\* none at all, has been analysed
C8_Witness ==
    /\ pc = "returned"
    /\ ranked = <<>>
    /\ \E i \in DOMAIN jobs_at_call : DescriptionOf(jobs_at_call[i]) = TextNoSkill
    /\ \E i \in DOMAIN jobs_at_call : "description" \notin jobs_at_call[i].keys

\* a job whose description is missing, empty or None
Blank(job) == DescriptionOf(job) \in {TextEmpty, None}

\* the jobs of the list, as analyze_skills left them, that have a description
\* and whose skills field holds the skill
FilledJobsWith(js, name) ==
    {i \in DOMAIN js : ~Blank(js[i]) /\ name \in Range(js[i].skills)}

\* the jobs of the list that have a description and a non-empty skills field
FilledJobsWithSkills(js) ==
    {i \in DOMAIN js : ~Blank(js[i]) /\ js[i].skills # <<>>}

\* C9: extract_skills_regex gives the empty set for the empty string,
\* whatever the lexicon; after analyze_skills nothing was raised, every job
\* without description or with an empty one has the skills field [], the
\* sets kept for counting are those of the other jobs, total_jobs and every
\* count are what the other jobs alone give
C9_BlankDescriptionCountsNowhere ==
    /\ extract_skills_regex(TextEmpty, COMPILED_PATTERNS) = Ok({})
    /\ extract_skills_regex(TextEmpty, <<>>) = Ok({})
    /\ pc # "start" =>
          /\ pc = "returned"
          /\ \A i \in DOMAIN jobs :
                Blank(jobs_at_call[i]) =>
                    "skills" \in jobs[i].keys /\ jobs[i].skills = <<>>
          /\ Len(all_skills) = Cardinality(FilledJobsWithSkills(jobs))
          /\ ranked # <<>> => total_jobs = Cardinality(FilledJobsWithSkills(jobs))
          /\ \A i \in DOMAIN ranked :
                ranked[i].count = Cardinality(FilledJobsWith(jobs, ranked[i].skill))

\* a list with a job without description, a job with an empty one and a job
\* that mentions skills has been analysed
C9_Witness ==
    /\ pc = "returned"
    /\ ranked # <<>>
    /\ total_jobs = 1
    /\ \E i \in DOMAIN jobs_at_call : "description" \notin jobs_at_call[i].keys
    /\ \E i \in DOMAIN jobs_at_call :
          /\ "description" \in jobs_at_call[i].keys
          /\ jobs_at_call[i].description = TextEmpty
          /\ "skills" \in jobs[i].keys
          /\ jobs[i].skills = <<>>

-----------------------------------------------------------------------------
(* Properties of direct calls of extract_skills_regex *)

\* the texts called so far
TextsCalled == {v \in TextUniverse : returned[v] # {}}

-----------------------------------------------------------------------------
(* Properties of the rules of the lexicon *)

\* the lexicon entry of a skill
EntryOf(name) == CHOOSE k \in DOMAIN PREDEFINED_SKILLS : PREDEFINED_SKILLS[k].skill = name

\* C11: every call of extract_skills_regex made so far on a text returned,
\* without raising, exactly the skills of which at least one rule is found in
\* the lowercased text, which is what testing every rule of every entry and
\* uniting the matches gives
C11_ShortCircuitGivesTheUnion ==
    /\ \A v \in TextUniverse : \A outcome \in returned[v] : outcome = Ok(Mentioned[v])
    /\ calls > 0 => found_skills = Mentioned[text]

\* "JS and PYTHON" was called: the first rule of JavaScript is not found in
\* it, the second is, and the first and only rule of Python is
C11_Witness ==
    /\ calls > 0
    /\ text = TextJsPython
    /\ found_skills = {"JavaScript", "Python"}
    /\ ~Search(PREDEFINED_SKILLS[EntryOf("JavaScript")].patterns[1], ToLower(text.s))
    /\ Search(PREDEFINED_SKILLS[EntryOf("JavaScript")].patterns[2], ToLower(text.s))

\* C12: a call on a text in which "java" only begins "JavaScript" returns
\* JavaScript and not Java, a call on a text with the word "Java" by itself
\* returns Java, in lower, upper and mixed case
C12_JavaNotInJavaScript ==
    /\ \A v \in {TextJavaScript, TextJavaScriptLower} : \A outcome \in returned[v] :
          /\ outcome.raised = "none"
          /\ "Java" \notin outcome.value
          /\ "JavaScript" \in outcome.value
    /\ \A v \in {TextJava, TextJavaUpper} : \A outcome \in returned[v] :
          /\ outcome.raised = "none"
          /\ "Java" \in outcome.value
          /\ "JavaScript" \notin outcome.value

\* "We use JavaScript heavily" and "WE USE JAVA HEAVILY" were both called
C12_Witness ==
    /\ returned[TextJavaScript] # {}
    /\ returned[TextJavaUpper] # {}
    /\ text = TextJavaUpper
    /\ found_skills = {"Java"}

\* C13: a call on a text that names GitHub (GitLab) and has no word "git" by
\* itself returns GitHub (GitLab) and not Git
C13_GitNotInGitHub ==
    /\ \A outcome \in returned[TextGitHub] :
          /\ outcome.raised = "none"
          /\ "Git" \notin outcome.value
          /\ "GitHub" \in outcome.value
    /\ \A outcome \in returned[TextGitLab] :
          /\ outcome.raised = "none"
          /\ "Git" \notin outcome.value
          /\ "GitLab" \in outcome.value

\* "Experience with GitHub Actions" and "Experience with GitLab CI" were both
\* called
C13_Witness ==
    /\ returned[TextGitHub] # {}
    /\ returned[TextGitLab] # {}
    /\ text = TextGitHub
    /\ "GitHub" \in found_skills

-----------------------------------------------------------------------------
(* What analyze_skills does to the job records *)

\* the fields a job record can have besides skills
OtherFields == {"title", "description"}

\* C14: when analyze_skills has returned, with entries or with the empty
\* list, the list holds as many jobs as before; every job has a skills field
\* that lists, each once, exactly the skills extract_skills_regex returns
\* for the job's description; and every job has, besides skills, the fields
\* it had, with the values they had
C14_OnlySkillsFieldChanges ==
    pc = "returned" =>
        /\ Len(jobs) = Len(jobs_at_call)
        /\ \A i \in DOMAIN jobs :
              /\ jobs[i].keys = jobs_at_call[i].keys \cup {"skills"}
              /\ \A field \in OtherFields : jobs[i][field] = jobs_at_call[i][field]
              /\ Range(jobs[i].skills) =
                    call_extract_skills_regex(DescriptionOf(jobs_at_call[i])).value
              /\ NoDuplicates(jobs[i].skills)

\* the empty list was returned for jobs, one of them without description:
\* each of them has the skills field []
C14_Witness ==
    /\ pc = "returned"
    /\ ranked = <<>>
    /\ Len(jobs) >= 2
    /\ \E i \in DOMAIN jobs : "description" \notin jobs_at_call[i].keys
    /\ \A i \in DOMAIN jobs :
          /\ "skills" \notin jobs_at_call[i].keys
          /\ "skills" \in jobs[i].keys
          /\ jobs[i].skills = <<>>

-----------------------------------------------------------------------------
(* Properties of the Name Normalizer *)

\* what the calls made so far on the input gave
NormalizedTo(v) == {pair[2] : pair \in {q \in normalized : q[1] = v}}

\* C15: every call of normalize made so far returned a non-empty str and did
\* not fail; "pytorch", in any case and with blanks around it, gave
\* "PyTorch"; "SomeNewTool" gave "SomeNewTool", with blanks around it too; an
\* input whose trimmed, lowercased form is no alias gave its trimmed form
C15_NormalizeFoldsOrPassesThrough ==
    /\ \A pair \in normalized :
          /\ pair[2].raised = "none"
          /\ pair[2].value.type = "str"
          /\ pair[2].value.s # <<>>
          /\ ToLower(Strip(pair[1].s)) \notin {AliasPytorch, AliasTensorflow} =>
                pair[2].value.s = Strip(pair[1].s)
    /\ \A v \in {Str(AliasPytorch), Str(NamePyTorch), Str(RawPytorchPadded),
                 Str(RawPytorchUpper)} :
          NormalizedTo(v) \subseteq {Ok(Str(NamePyTorch))}
    /\ \A v \in {Str(RawSomeNewTool), Str(RawSomeNewToolPadded)} :
          NormalizedTo(v) \subseteq {Ok(Str(RawSomeNewTool))}
    /\ NormalizedTo(Str(RawPyTorchTwoWords)) \subseteq {Ok(Str(RawPyTorchTwoWords))}

\* "pytorch", "  SomeNewTool " and "PYTORCH " have been normalized
C15_Witness ==
    /\ NormalizedTo(Str(AliasPytorch)) = {Ok(Str(NamePyTorch))}
    /\ NormalizedTo(Str(RawSomeNewToolPadded)) = {Ok(Str(RawSomeNewTool))}
    /\ NormalizedTo(Str(RawPytorchUpper)) = {Ok(Str(NamePyTorch))}

-----------------------------------------------------------------------------
(* Properties of discover_new_skills *)

\* two names that are equal when letter case is ignored
SameIgnoringCase(a, b) == ToLower(a.s) = ToLower(b.s)

\* C17: no skill of the list discover_new_skills returns equals, letter case
\* ignored, a skill of known_skills
C17_NoReturnedSkillIsKnown ==
    pc = "returned" =>
        \A i \in DOMAIN new_skills : \A k \in known_skills :
            ~SameIgnoringCase(new_skills[i], k)

\* C18: no two entries of the list discover_new_skills returns are equal when
\* letter case is ignored
C18_NoTwoReturnedSkillsEqual ==
    pc = "returned" =>
        \A i, j \in DOMAIN new_skills :
            i # j => ~SameIgnoringCase(new_skills[i], new_skills[j])

-----------------------------------------------------------------------------
(* Properties of main *)

\* C16: when analyze_skills returned the empty list to main, the process
\* does not end with a failure status
C16_EmptyRankingIsNoFailure ==
    (main_pc = "exited" /\ pc = "returned" /\ ranked = <<>>) => exit_status = 0

\* C19: when the reply holds no array that parses, generate_search_keywords
\* raises nothing and returns the first num_keywords fallback keywords; and
\* whenever it returns, it returns at most num_keywords keywords
C19_FallbackKeywordsOnUnparsableReply ==
    main_pc = "scrape" =>
        /\ content.kind \in {"no_array", "bad_json"} =>
              /\ raised = "none"
              /\ keywords = Prefix(FallbackKeywords, num_keywords)
        /\ raised = "none" => Len(keywords) <= num_keywords

-----------------------------------------------------------------------------
(* How many entries analyze_skills returns *)

\* the skills the descriptions of the jobs mention
SkillsFound(js) == UNION {Mentioned[DescriptionOf(js[i])] : i \in DOMAIN js}

\* C20: the list analyze_skills returns has one entry for every skill some
\* job's description mentions, and as many entries as there are such skills
C20_OneEntryPerSkillFound ==
    pc = "returned" =>
        /\ Len(ranked) = Cardinality(SkillsFound(jobs_at_call))
        /\ \A name \in SkillsFound(jobs_at_call) : EntriesOf(ranked, name) # {}

-----------------------------------------------------------------------------
(* Skill names that end in a character that is no word character *)

\* the texts in which "C++" stands before whitespace, before punctuation
TextsNamingCpp == {TextCpp, TextCppCSharpList}

\* the texts in which "C#" stands at the end of the text, before punctuation
TextsNamingCSharp == {TextCSharp, TextCppCSharpList}

\* C22: a call of extract_skills_regex on a text in which the name "C++"
\* (resp. "C#") is followed by whitespace, punctuation or the end of the text
\* returns a set that holds "C++" (resp. "C#")
C22_CppAndCSharpFoundByName ==
    (calls > 0 /\ raised = "none") =>
        /\ text \in TextsNamingCpp => "C++" \in found_skills
        /\ text \in TextsNamingCSharp => "C#" \in found_skills

-----------------------------------------------------------------------------
(* The browser driver of search_jobs *)

\* the browsers that calls of search_jobs stored in self.driver
SearchBrowsers == {i \in DOMAIN browsers : browsers[i].by = "search_jobs"}

\* the browser of the call of search_jobs in progress, if there is one
InUse(i) == search_pc # "idle" /\ driver = i

\* no browser of search_jobs is ever quit twice, and none but the one of the
\* call in progress is open
EarlierDriversQuitOnce ==
    \A i \in SearchBrowsers : browsers[i].quits = IF InUse(i) THEN 0 ELSE 1

\* a step that ends a call of search_jobs which had created its driver quits
\* that driver and leaves None in the field
CallEndClearsDriver ==
    (search_pc # "idle" /\ search_pc' = "idle") =>
        /\ browsers[driver].quits = 0
        /\ browsers'[driver].quits = 1
        /\ driver' = 0

\* C21: a call of search_jobs that has created its driver quits it exactly
\* once before it ends and leaves None in the driver field, whether the loop
\* ran through all pages, skipped pages that timed out, or was left by an
\* exception; so no browser of an earlier call of search_jobs is open when
\* another call runs or when none does
C21_DriverQuitOnceOnEveryEnd ==
    []EarlierDriversQuitOnce /\ [][CallEndClearsDriver]_vars

\* two calls that created a driver have ended, the second when an Exception
\* raised in a pass of its loop was caught before the last page; both browsers
\* are quit once and the field is None
C21_Witness ==
    /\ search_pc = "idle" /\ searched = 2 /\ driver = 0
    /\ Cardinality(SearchBrowsers) = 2
    /\ \A i \in SearchBrowsers : browsers[i].quits = 1
    /\ pending = "none" /\ page < num_pages

====
